---- MODULE Spec2Model ----
(***************************************************************************)
(* Model of the cody_emulator core: the W65C02 interpreter (src/src/cpu.rs) *)
(* running on the address-decoded bus (src/src/memory/mapped.rs) built from *)
(* contiguous RAM/ROM regions (src/src/memory/contiguous.rs) and devices.   *)
(***************************************************************************)
EXTENDS Integers, Sequences, FiniteSets, TLC

\* ------------------------------------------------------------------------
\* Bounds of the exploration (not program constants)
\* ------------------------------------------------------------------------
\* step_instruction is explored while the cycle counter is below MaxCycle
MaxCycle == 9
\* number of reset() calls explored after construction
MaxResets == 1

\* ------------------------------------------------------------------------
\* Program constants (cpu.rs)
\* ------------------------------------------------------------------------
INITIAL_STACK_POINTER == 253
NMI_VECTOR == 65530
RESET_VECTOR == 65532
IRQ_VECTOR == 65534

\* ------------------------------------------------------------------------
\* Fixed-width integer arithmetic
\* ------------------------------------------------------------------------
U8(n) == n % 256
U16(n) == n % 65536
Bit(v, n) == (v \div (2 ^ n)) % 2

RECURSIVE BitAnd(_, _)
BitAnd(m, n) ==
  IF m = 0 \/ n = 0 THEN 0
  ELSE ((m % 2) * (n % 2)) + 2 * BitAnd(m \div 2, n \div 2)

RECURSIVE BitOr(_, _)
BitOr(m, n) ==
  IF m = 0 THEN n
  ELSE IF n = 0 THEN m
  ELSE (IF (m % 2) + (n % 2) > 0 THEN 1 ELSE 0) + 2 * BitOr(m \div 2, n \div 2)

RECURSIVE BitXor(_, _)
BitXor(m, n) ==
  IF m = 0 THEN n
  ELSE IF n = 0 THEN m
  ELSE (((m % 2) + (n % 2)) % 2) + 2 * BitXor(m \div 2, n \div 2)

\* !m on a u8
BitNot8(m) == 255 - m

\* u16::to_le_bytes / u16::from_le_bytes
lo_byte(w) == w % 256
hi_byte(w) == w \div 256
from_le_bytes(l, h) == l + 256 * h

\* `b as i8 as i16`
as_i8(b) == IF b >= 128 THEN b - 256 ELSE b

\* ------------------------------------------------------------------------
\* Status (bitfield over u8, LSB first): carry, zero, irqb_disable,
\* decimal_mode, _brk_command, _unused, overflow, negative
\* ------------------------------------------------------------------------
CARRY == 0
ZERO == 1
IRQB_DISABLE == 2
DECIMAL_MODE == 3
BRK_COMMAND == 4
UNUSED == 5
OVERFLOW == 6
NEGATIVE == 7

\* Status::default(): the fields declared `default = true` are set
Status_default == (2 ^ IRQB_DISABLE) + (2 ^ BRK_COMMAND) + (2 ^ UNUSED)

\* the generated getter of a one-bit field
flag(p, n) == Bit(p, n) = 1

\* the generated setter of a one-bit field
set_flag(p, n, v) ==
  IF v THEN (IF Bit(p, n) = 1 THEN p ELSE p + (2 ^ n))
  ELSE (IF Bit(p, n) = 1 THEN p - (2 ^ n) ELSE p)

\* ------------------------------------------------------------------------
\* Interrupt signal returned by Memory::update: a pair of independent bits
\* ------------------------------------------------------------------------
Interrupt_none == [irq |-> FALSE, nmi |-> FALSE]
Interrupt_or(i, j) == [irq |-> i.irq \/ j.irq, nmi |-> i.nmi \/ j.nmi]
is_irq(i) == i.irq
is_nmi(i) == i.nmi
InterruptSignals == [irq : BOOLEAN, nmi : BOOLEAN]

\* ------------------------------------------------------------------------
\* Opcode table (opcode.rs): mnemonic, opcode byte, parameter_1, parameter_2
\* ------------------------------------------------------------------------
OPCODES ==
  << <<"ADC", 105, "Immediate", "None">>,
     <<"ADC", 109, "Absolute", "None">>,
     <<"ADC", 125, "AbsoluteIndexedX", "None">>,
     <<"ADC", 121, "AbsoluteIndexedY", "None">>,
     <<"ADC", 101, "ZeroPage", "None">>,
     <<"ADC", 117, "ZeroPageIndexedX", "None">>,
     <<"ADC", 97, "ZeroPageIndexedIndirectX", "None">>,
     <<"ADC", 114, "ZeroPageIndirect", "None">>,
     <<"ADC", 113, "ZeroPageIndirectIndexedY", "None">>,
     <<"AND", 41, "Immediate", "None">>,
     <<"AND", 45, "Absolute", "None">>,
     <<"AND", 61, "AbsoluteIndexedX", "None">>,
     <<"AND", 57, "AbsoluteIndexedY", "None">>,
     <<"AND", 37, "ZeroPage", "None">>,
     <<"AND", 53, "ZeroPageIndexedX", "None">>,
     <<"AND", 33, "ZeroPageIndexedIndirectX", "None">>,
     <<"AND", 50, "ZeroPageIndirect", "None">>,
     <<"AND", 49, "ZeroPageIndirectIndexedY", "None">>,
     <<"ASL", 10, "Accumulator", "None">>,
     <<"ASL", 14, "Absolute", "None">>,
     <<"ASL", 30, "AbsoluteIndexedX", "None">>,
     <<"ASL", 6, "ZeroPage", "None">>,
     <<"ASL", 22, "ZeroPageIndexedX", "None">>,
     <<"BBR0", 15, "ZeroPage", "ProgramCounterRelative">>,
     <<"BBR1", 31, "ZeroPage", "ProgramCounterRelative">>,
     <<"BBR2", 47, "ZeroPage", "ProgramCounterRelative">>,
     <<"BBR3", 63, "ZeroPage", "ProgramCounterRelative">>,
     <<"BBR4", 79, "ZeroPage", "ProgramCounterRelative">>,
     <<"BBR5", 95, "ZeroPage", "ProgramCounterRelative">>,
     <<"BBR6", 111, "ZeroPage", "ProgramCounterRelative">>,
     <<"BBR7", 127, "ZeroPage", "ProgramCounterRelative">>,
     <<"BBS0", 143, "ZeroPage", "ProgramCounterRelative">>,
     <<"BBS1", 159, "ZeroPage", "ProgramCounterRelative">>,
     <<"BBS2", 175, "ZeroPage", "ProgramCounterRelative">>,
     <<"BBS3", 191, "ZeroPage", "ProgramCounterRelative">>,
     <<"BBS4", 207, "ZeroPage", "ProgramCounterRelative">>,
     <<"BBS5", 223, "ZeroPage", "ProgramCounterRelative">>,
     <<"BBS6", 239, "ZeroPage", "ProgramCounterRelative">>,
     <<"BBS7", 255, "ZeroPage", "ProgramCounterRelative">>,
     <<"BCC", 144, "ProgramCounterRelative", "None">>,
     <<"BCS", 176, "ProgramCounterRelative", "None">>,
     <<"BEQ", 240, "ProgramCounterRelative", "None">>,
     <<"BIT", 137, "Immediate", "None">>,
     <<"BIT", 44, "Absolute", "None">>,
     <<"BIT", 60, "AbsoluteIndexedX", "None">>,
     <<"BIT", 36, "ZeroPage", "None">>,
     <<"BIT", 52, "ZeroPageIndexedX", "None">>,
     <<"BMI", 48, "ProgramCounterRelative", "None">>,
     <<"BNE", 208, "ProgramCounterRelative", "None">>,
     <<"BPL", 16, "ProgramCounterRelative", "None">>,
     <<"BRA", 128, "ProgramCounterRelative", "None">>,
     <<"BRK", 0, "Stack", "None">>,
     <<"BVC", 80, "ProgramCounterRelative", "None">>,
     <<"BVS", 112, "ProgramCounterRelative", "None">>,
     <<"CLC", 24, "Implied", "None">>,
     <<"CLD", 216, "Implied", "None">>,
     <<"CLI", 88, "Implied", "None">>,
     <<"CLV", 184, "Implied", "None">>,
     <<"CMP", 201, "Immediate", "None">>,
     <<"CMP", 205, "Absolute", "None">>,
     <<"CMP", 221, "AbsoluteIndexedX", "None">>,
     <<"CMP", 217, "AbsoluteIndexedY", "None">>,
     <<"CMP", 197, "ZeroPage", "None">>,
     <<"CMP", 213, "ZeroPageIndexedX", "None">>,
     <<"CMP", 193, "ZeroPageIndexedIndirectX", "None">>,
     <<"CMP", 210, "ZeroPageIndirect", "None">>,
     <<"CMP", 209, "ZeroPageIndirectIndexedY", "None">>,
     <<"CPX", 224, "Immediate", "None">>,
     <<"CPX", 236, "Absolute", "None">>,
     <<"CPX", 228, "ZeroPage", "None">>,
     <<"CPY", 192, "Immediate", "None">>,
     <<"CPY", 204, "Absolute", "None">>,
     <<"CPY", 196, "ZeroPage", "None">>,
     <<"DEC", 58, "Accumulator", "None">>,
     <<"DEC", 206, "Absolute", "None">>,
     <<"DEC", 222, "AbsoluteIndexedX", "None">>,
     <<"DEC", 198, "ZeroPage", "None">>,
     <<"DEC", 214, "ZeroPageIndexedX", "None">>,
     <<"DEX", 202, "Implied", "None">>,
     <<"DEY", 136, "Implied", "None">>,
     <<"EOR", 73, "Immediate", "None">>,
     <<"EOR", 77, "Absolute", "None">>,
     <<"EOR", 93, "AbsoluteIndexedX", "None">>,
     <<"EOR", 89, "AbsoluteIndexedY", "None">>,
     <<"EOR", 69, "ZeroPage", "None">>,
     <<"EOR", 85, "ZeroPageIndexedX", "None">>,
     <<"EOR", 65, "ZeroPageIndexedIndirectX", "None">>,
     <<"EOR", 82, "ZeroPageIndirect", "None">>,
     <<"EOR", 81, "ZeroPageIndirectIndexedY", "None">>,
     <<"INC", 26, "Accumulator", "None">>,
     <<"INC", 238, "Absolute", "None">>,
     <<"INC", 254, "AbsoluteIndexedX", "None">>,
     <<"INC", 230, "ZeroPage", "None">>,
     <<"INC", 246, "ZeroPageIndexedX", "None">>,
     <<"INX", 232, "Implied", "None">>,
     <<"INY", 200, "Implied", "None">>,
     <<"JMP", 76, "Absolute", "None">>,
     <<"JMP", 124, "AbsoluteIndexedIndirectX", "None">>,
     <<"JMP", 108, "AbsoluteIndirect", "None">>,
     <<"JSR", 32, "Absolute", "None">>,
     <<"LDA", 169, "Immediate", "None">>,
     <<"LDA", 173, "Absolute", "None">>,
     <<"LDA", 189, "AbsoluteIndexedX", "None">>,
     <<"LDA", 185, "AbsoluteIndexedY", "None">>,
     <<"LDA", 165, "ZeroPage", "None">>,
     <<"LDA", 181, "ZeroPageIndexedX", "None">>,
     <<"LDA", 161, "ZeroPageIndexedIndirectX", "None">>,
     <<"LDA", 178, "ZeroPageIndirect", "None">>,
     <<"LDA", 177, "ZeroPageIndirectIndexedY", "None">>,
     <<"LDX", 162, "Immediate", "None">>,
     <<"LDX", 174, "Absolute", "None">>,
     <<"LDX", 190, "AbsoluteIndexedY", "None">>,
     <<"LDX", 166, "ZeroPage", "None">>,
     <<"LDX", 182, "ZeroPageIndexedY", "None">>,
     <<"LDY", 160, "Immediate", "None">>,
     <<"LDY", 172, "Absolute", "None">>,
     <<"LDY", 188, "AbsoluteIndexedX", "None">>,
     <<"LDY", 164, "ZeroPage", "None">>,
     <<"LDY", 180, "ZeroPageIndexedX", "None">>,
     <<"LSR", 74, "Accumulator", "None">>,
     <<"LSR", 78, "Absolute", "None">>,
     <<"LSR", 94, "AbsoluteIndexedX", "None">>,
     <<"LSR", 70, "ZeroPage", "None">>,
     <<"LSR", 86, "ZeroPageIndexedX", "None">>,
     <<"NOP", 234, "Implied", "None">>,
     <<"ORA", 9, "Immediate", "None">>,
     <<"ORA", 13, "Absolute", "None">>,
     <<"ORA", 29, "AbsoluteIndexedX", "None">>,
     <<"ORA", 25, "AbsoluteIndexedY", "None">>,
     <<"ORA", 5, "ZeroPage", "None">>,
     <<"ORA", 21, "ZeroPageIndexedX", "None">>,
     <<"ORA", 1, "ZeroPageIndexedIndirectX", "None">>,
     <<"ORA", 18, "ZeroPageIndirect", "None">>,
     <<"ORA", 17, "ZeroPageIndirectIndexedY", "None">>,
     <<"PHA", 72, "Stack", "None">>,
     <<"PHP", 8, "Stack", "None">>,
     <<"PHX", 218, "Stack", "None">>,
     <<"PHY", 90, "Stack", "None">>,
     <<"PLA", 104, "Stack", "None">>,
     <<"PLP", 40, "Stack", "None">>,
     <<"PLX", 250, "Stack", "None">>,
     <<"PLY", 122, "Stack", "None">>,
     <<"RMB0", 7, "ZeroPage", "None">>,
     <<"RMB1", 23, "ZeroPage", "None">>,
     <<"RMB2", 39, "ZeroPage", "None">>,
     <<"RMB3", 55, "ZeroPage", "None">>,
     <<"RMB4", 71, "ZeroPage", "None">>,
     <<"RMB5", 87, "ZeroPage", "None">>,
     <<"RMB6", 103, "ZeroPage", "None">>,
     <<"RMB7", 119, "ZeroPage", "None">>,
     <<"ROL", 42, "Accumulator", "None">>,
     <<"ROL", 46, "Absolute", "None">>,
     <<"ROL", 62, "AbsoluteIndexedX", "None">>,
     <<"ROL", 38, "ZeroPage", "None">>,
     <<"ROL", 54, "ZeroPageIndexedX", "None">>,
     <<"ROR", 106, "Accumulator", "None">>,
     <<"ROR", 110, "Absolute", "None">>,
     <<"ROR", 126, "AbsoluteIndexedX", "None">>,
     <<"ROR", 102, "ZeroPage", "None">>,
     <<"ROR", 118, "ZeroPageIndexedX", "None">>,
     <<"RTI", 64, "Stack", "None">>,
     <<"RTS", 96, "Stack", "None">>,
     <<"SBC", 233, "Immediate", "None">>,
     <<"SBC", 237, "Absolute", "None">>,
     <<"SBC", 253, "AbsoluteIndexedX", "None">>,
     <<"SBC", 249, "AbsoluteIndexedY", "None">>,
     <<"SBC", 229, "ZeroPage", "None">>,
     <<"SBC", 245, "ZeroPageIndexedX", "None">>,
     <<"SBC", 225, "ZeroPageIndexedIndirectX", "None">>,
     <<"SBC", 242, "ZeroPageIndirect", "None">>,
     <<"SBC", 241, "ZeroPageIndirectIndexedY", "None">>,
     <<"SEC", 56, "Implied", "None">>,
     <<"SED", 248, "Implied", "None">>,
     <<"SEI", 120, "Implied", "None">>,
     <<"SMB0", 135, "ZeroPage", "None">>,
     <<"SMB1", 151, "ZeroPage", "None">>,
     <<"SMB2", 167, "ZeroPage", "None">>,
     <<"SMB3", 183, "ZeroPage", "None">>,
     <<"SMB4", 199, "ZeroPage", "None">>,
     <<"SMB5", 215, "ZeroPage", "None">>,
     <<"SMB6", 231, "ZeroPage", "None">>,
     <<"SMB7", 247, "ZeroPage", "None">>,
     <<"STA", 141, "Absolute", "None">>,
     <<"STA", 157, "AbsoluteIndexedX", "None">>,
     <<"STA", 153, "AbsoluteIndexedY", "None">>,
     <<"STA", 133, "ZeroPage", "None">>,
     <<"STA", 149, "ZeroPageIndexedX", "None">>,
     <<"STA", 129, "ZeroPageIndexedIndirectX", "None">>,
     <<"STA", 146, "ZeroPageIndirect", "None">>,
     <<"STA", 145, "ZeroPageIndirectIndexedY", "None">>,
     <<"STP", 219, "Implied", "None">>,
     <<"STX", 142, "Absolute", "None">>,
     <<"STX", 134, "ZeroPage", "None">>,
     <<"STX", 150, "ZeroPageIndexedY", "None">>,
     <<"STY", 140, "Absolute", "None">>,
     <<"STY", 132, "ZeroPage", "None">>,
     <<"STY", 148, "ZeroPageIndexedX", "None">>,
     <<"STZ", 156, "Absolute", "None">>,
     <<"STZ", 158, "AbsoluteIndexedX", "None">>,
     <<"STZ", 100, "ZeroPage", "None">>,
     <<"STZ", 116, "ZeroPageIndexedX", "None">>,
     <<"TAX", 170, "Implied", "None">>,
     <<"TAY", 168, "Implied", "None">>,
     <<"TRB", 28, "Absolute", "None">>,
     <<"TRB", 20, "ZeroPage", "None">>,
     <<"TSB", 12, "Absolute", "None">>,
     <<"TSB", 4, "ZeroPage", "None">>,
     <<"TSX", 186, "Implied", "None">>,
     <<"TXA", 138, "Implied", "None">>,
     <<"TXS", 154, "Implied", "None">>,
     <<"TYA", 152, "Implied", "None">>,
     <<"WAI", 203, "Implied", "None">> >>

\* the mnemonics whose memory-operand form reads a value
ReadMnemonics ==
  {"ADC", "AND", "BIT", "CMP", "CPX", "CPY", "EOR", "LDA", "LDX", "LDY", "ORA", "SBC"}
ShiftMnemonics == {"ASL", "LSR", "ROL", "ROR"}
BranchMnemonics == {"BCC", "BCS", "BEQ", "BMI", "BNE", "BPL", "BRA", "BVC", "BVS"}
BitBranchMnemonics ==
  {"BBR0", "BBR1", "BBR2", "BBR3", "BBR4", "BBR5", "BBR6", "BBR7",
   "BBS0", "BBS1", "BBS2", "BBS3", "BBS4", "BBS5", "BBS6", "BBS7"}
BitModMnemonics ==
  {"RMB0", "RMB1", "RMB2", "RMB3", "RMB4", "RMB5", "RMB6", "RMB7",
   "SMB0", "SMB1", "SMB2", "SMB3", "SMB4", "SMB5", "SMB6", "SMB7"}

\* base cycle count of an opcode (the `cycles` field read by step_instruction),
\* per the W65C02S datasheet
base_cycles(m, mode) ==
  CASE m \in ReadMnemonics ->
         (CASE mode = "Immediate" -> 2
            [] mode = "ZeroPage" -> 3
            [] mode \in {"ZeroPageIndexedX", "ZeroPageIndexedY", "Absolute",
                         "AbsoluteIndexedX", "AbsoluteIndexedY"} -> 4
            [] mode \in {"ZeroPageIndirect", "ZeroPageIndirectIndexedY"} -> 5
            [] OTHER -> 6)
    [] m \in {"STA", "STX", "STY", "STZ"} ->
         (CASE mode = "ZeroPage" -> 3
            [] mode \in {"ZeroPageIndexedX", "ZeroPageIndexedY", "Absolute"} -> 4
            [] mode \in {"AbsoluteIndexedX", "AbsoluteIndexedY", "ZeroPageIndirect"} -> 5
            [] OTHER -> 6)
    [] m \in ShiftMnemonics \cup {"INC", "DEC"} ->
         (CASE mode = "Accumulator" -> 2
            [] mode = "ZeroPage" -> 5
            [] mode = "AbsoluteIndexedX" /\ m \in {"INC", "DEC"} -> 7
            [] OTHER -> 6)
    [] m \in {"TRB", "TSB"} -> (IF mode = "ZeroPage" THEN 5 ELSE 6)
    [] m \in BitModMnemonics \cup BitBranchMnemonics -> 5
    [] m \in BranchMnemonics -> 2
    [] m = "BRK" -> 7
    [] m = "JMP" -> (IF mode = "Absolute" THEN 3 ELSE 6)
    [] m \in {"JSR", "RTS", "RTI"} -> 6
    [] m \in {"PHA", "PHP", "PHX", "PHY", "STP", "WAI"} -> 3
    [] m \in {"PLA", "PLP", "PLX", "PLY"} -> 4
    [] OTHER -> 2

\* Option::None of the lookup
NoInstruction ==
  [opcode |-> "None", byte |-> 0, parameter_1 |-> "None", parameter_2 |-> "None", cycles |-> 0]
is_some(i) == i.opcode # "None"

\* OPCODE_LOOKUP: [Option<&Opcode>; 256], filled from OPCODES
OPCODE_LOOKUP ==
  [b \in 0..255 |->
     IF \E i \in DOMAIN OPCODES : OPCODES[i][2] = b
     THEN LET e == OPCODES[CHOOSE i \in DOMAIN OPCODES : OPCODES[i][2] = b]
          IN [opcode |-> e[1], byte |-> e[2], parameter_1 |-> e[3], parameter_2 |-> e[4],
              cycles |-> base_cycles(e[1], e[3])]
     ELSE NoInstruction]

\* get_instruction(byte)
get_instruction(b) == OPCODE_LOOKUP[b]

\* ------------------------------------------------------------------------
\* Via (device/via.rs).  The device as a record of its fields; t1_watch
\* observes Timer 1 since the last write of T1CH, panicked records that a
\* call has unwound, spinning that a call of update is in a loop it does not
\* leave, writes counts the register writes made.
\* ------------------------------------------------------------------------
VIA_IORB == 0
VIA_IORA == 1
VIA_DDRB == 2
VIA_DDRA == 3
VIA_T1CL == 4
VIA_T1CH == 5
VIA_T1LL == 6
VIA_T1LH == 7
VIA_T2CL == 8
VIA_T2CH == 9
VIA_SR == 10
VIA_ACR == 11
VIA_PCR == 12
VIA_IFR == 13
VIA_IER == 14
VIA_IORA_NO_HANDSHAKE == 15

\* KeyState::default: no key has been reported
KeyState_default == [i \in 0..7 |-> 0]

\* Timer 1 as observed since T1CH was written: the latch value then, the
\* cycles ticked since, the times IFR bit 6 was raised, and whether the
\* latches or ACR bit 6 have been rewritten in between
Unwatched == [armed |-> FALSE, n |-> 0, continuous |-> FALSE, elapsed |-> 0,
              fired |-> 0, at |-> <<>>]

\* #[derive(Default)]
Via_default ==
  [registers |-> [i \in 0..15 |-> 0], key_state |-> KeyState_default, last_update |-> 0,
   t1_latch_lo |-> 0, t1_latch_hi |-> 0, t1_counter |-> 0, t1_enabled |-> FALSE,
   t2_latch_lo |-> 0, t2_latch_hi |-> 0, t2_counter |-> 0, t2_enabled |-> FALSE,
   ifr |-> 0, ier |-> 0, t1_watch |-> Unwatched, writes |-> 0, panicked |-> FALSE, spinning |-> FALSE]

\* a device call's result: the device after it and the value returned
Answer(v, value) == [via |-> v, v |-> value]

\* assert_eq!(ddr, 0x7, ...) fails for every other DDRA
read_iora(v) ==
  IF v.registers[VIA_DDRA] # 7
  THEN Answer([v EXCEPT !.panicked = TRUE], 0)
  ELSE Answer(v, BitOr(v.key_state[BitAnd(v.registers[VIA_IORA], v.registers[VIA_DDRA])],
                       BitAnd(v.registers[VIA_IORA], v.registers[VIA_DDRA])))

\* (an IFR whose bit 7 is whatever was asked for)
set_ifr_raw(v, ifr) == [v EXCEPT !.ifr = ifr]

set_ifr(v, ifr) ==
  [v EXCEPT !.ifr = IF BitAnd(BitAnd(ifr, 127), v.ier) # 0
                    THEN BitOr(BitAnd(ifr, 127), 128)
                    ELSE BitAnd(ifr, 127)]

set_ier(v, ier) ==
  LET refreshed(w) == set_ifr(w, w.ifr)
  IN refreshed([v EXCEPT !.ier = IF BitAnd(ier, 128) # 0
                                 THEN BitOr(@, ier)
                                 ELSE BitAnd(@, BitNot8(ier))])

Via_read_u8(v, address) ==
  CASE address = VIA_IORA -> read_iora(v)
    [] address = VIA_T1CL -> Answer(set_ifr(v, BitAnd(v.ifr, BitNot8(64))), v.t1_counter % 256)
    [] address = VIA_T1CH -> Answer(v, v.t1_counter \div 256)
    [] address = VIA_T1LL -> Answer(v, v.t1_latch_lo)
    [] address = VIA_T1LH -> Answer(v, v.t1_latch_hi)
    [] address = VIA_T2CL -> Answer(set_ifr(v, BitAnd(v.ifr, BitNot8(32))), v.t2_counter % 256)
    [] address = VIA_T2CH -> Answer(v, v.t2_counter \div 256)
    [] address = VIA_IFR -> Answer(v, v.ifr)
    [] address = VIA_IER -> Answer(v, BitOr(v.ier, 128))
    [] address \in 0..15 -> Answer(v, v.registers[address])
    [] OTHER -> Answer(v, 0)

\* the observation of Timer 1 ends when a latch or ACR is rewritten
unwatch(v) == [v EXCEPT !.t1_watch = Unwatched]

Via_write_u8(v, address, value) ==
  CASE address = VIA_T1CL -> unwatch([v EXCEPT !.t1_latch_lo = value])
    [] address = VIA_T1CH ->
         LET loaded(w) ==
               [w EXCEPT !.t1_counter = w.t1_latch_lo + w.t1_latch_hi * 256,
                         !.t1_enabled = TRUE,
                         !.t1_watch = [armed |-> TRUE,
                                       n |-> w.t1_latch_lo + w.t1_latch_hi * 256,
                                       continuous |-> BitAnd(w.registers[VIA_ACR], 64) # 0,
                                       elapsed |-> 0, fired |-> 0, at |-> <<>>]]
         IN loaded(set_ifr([v EXCEPT !.t1_latch_hi = value], BitAnd(v.ifr, BitNot8(64))))
    [] address = VIA_T1LL -> unwatch([v EXCEPT !.t1_latch_lo = value])
    [] address = VIA_T1LH ->
         unwatch(set_ifr([v EXCEPT !.t1_latch_hi = value], BitAnd(v.ifr, BitNot8(64))))
    [] address = VIA_T2CL -> [v EXCEPT !.t2_latch_lo = value]
    [] address = VIA_T2CH ->
         LET loaded(w) ==
               [w EXCEPT !.t2_counter = w.t2_latch_lo + w.t2_latch_hi * 256,
                         !.t2_enabled = TRUE]
         IN loaded(set_ifr([v EXCEPT !.t2_latch_hi = value], BitAnd(v.ifr, BitNot8(32))))
    [] address = VIA_IFR -> set_ifr(v, value)
    [] address = VIA_IER -> set_ier(v, value)
    [] address = VIA_ACR -> unwatch([v EXCEPT !.registers[address] = value])
    [] address \in 0..15 -> [v EXCEPT !.registers[address] = value]
    [] OTHER -> v

\* Interrupt::irq()
Interrupt_irq == [irq |-> TRUE, nmi |-> FALSE]

\* Timer 1 over one elapsed cycle (the first half of the loop body of update)
timer1_oneshot_only(v, acr) ==
  LET counted(w) ==
        IF w.t1_counter # 0 THEN w
        ELSE LET reloaded(u) ==
                   [u EXCEPT !.t1_counter = u.t1_latch_lo + u.t1_latch_hi * 256]
             IN reloaded(IF w.t1_enabled
                         THEN [set_ifr(w, BitOr(w.ifr, 64))
                                 EXCEPT !.t1_enabled = FALSE,
                                        !.t1_watch.fired = IF w.t1_watch.armed THEN @ + 1 ELSE @,
                                        !.t1_watch.at = IF w.t1_watch.armed
                                                        THEN Append(@, w.t1_watch.elapsed)
                                                        ELSE @]
                         ELSE w)
  IN counted([v EXCEPT !.t1_counter = U16(@ - 1),
                       !.t1_watch.elapsed = IF v.t1_watch.armed THEN @ + 1 ELSE @])
timer1(v, acr) ==
  LET counted(w) ==
        IF w.t1_counter # 0 THEN w
        ELSE LET reloaded(u) ==
                   [u EXCEPT !.t1_counter = u.t1_latch_lo + u.t1_latch_hi * 256]
             IN reloaded(IF w.t1_enabled
                         THEN [set_ifr(w, BitOr(w.ifr, 64))
                                 EXCEPT !.t1_enabled = BitAnd(acr, 64) # 0,
                                        !.t1_watch.fired = IF w.t1_watch.armed THEN @ + 1 ELSE @,
                                        !.t1_watch.at = IF w.t1_watch.armed
                                                        THEN Append(@, w.t1_watch.elapsed)
                                                        ELSE @]
                         ELSE w)
  IN counted([v EXCEPT !.t1_counter = U16(@ - 1),
                       !.t1_watch.elapsed = IF v.t1_watch.armed THEN @ + 1 ELSE @])

\* Timer 2 over one elapsed cycle (the second half of the loop body)
timer2(v, acr) ==
  LET counted(w) ==
        IF w.t2_counter = 0 /\ w.t2_enabled
        THEN [set_ifr(w, BitOr(w.ifr, 32)) EXCEPT !.t2_enabled = FALSE]
        ELSE w
  IN counted(IF BitAnd(acr, 32) # 0 THEN v ELSE [v EXCEPT !.t2_counter = U16(@ - 1)])

\* for _ in 0..cycles_elapsed
RECURSIVE elapse(_, _, _)
elapse(v, acr, n) ==
  IF n = 0 THEN v
  ELSE elapse(timer2(timer1(v, acr), acr), acr, n - 1)

\* cycle.wrapping_sub(self.last_update) on a usize: a cycle below last_update
\* gives 2^64 - (last_update - cycle), written here as the negative number
\* cycle - last_update
cycles_elapsed(v, c) == c - v.last_update

\* (Via_update_edge: irq returned only by the tick that raises IFR bit 7)
Via_update_edge(v, c) ==
  LET ticked(w) ==
        Answer(w, IF BitAnd(w.ifr, 128) # 0 /\ BitAnd(v.ifr, 128) = 0
                  THEN Interrupt_irq ELSE Interrupt_none)
  IN IF cycles_elapsed(v, c) < 0
     THEN Answer([v EXCEPT !.last_update = c, !.spinning = TRUE], Interrupt_none)
     ELSE ticked(elapse([v EXCEPT !.last_update = c], v.registers[VIA_ACR],
                        cycles_elapsed(v, c)))

\* update(cycle).  A loop of 2^64 - d iterations does not come to its end:
\* the device is left `spinning` and the call is not followed further.
Via_update(v, c) ==
  LET ticked(w) ==
        Answer(w, IF BitAnd(w.ifr, 128) # 0 THEN Interrupt_irq ELSE Interrupt_none)
  IN IF cycles_elapsed(v, c) < 0
     THEN Answer([v EXCEPT !.last_update = c, !.spinning = TRUE], Interrupt_none)
     ELSE ticked(elapse([v EXCEPT !.last_update = c], v.registers[VIA_ACR],
                        cycles_elapsed(v, c)))

\* ------------------------------------------------------------------------
\* State
\* ------------------------------------------------------------------------
VARIABLES
  a,                \* Cpu::a
  x,                \* Cpu::x
  y,                \* Cpu::y
  s,                \* Cpu::s
  p,                \* Cpu::p, the bits of the Status byte
  pc,               \* Cpu::pc
  memory,           \* Cpu::memory, a MappedMemory: sequence of regions
  run,              \* Cpu::run
  wai,              \* Cpu::wai
  cycle,            \* Cpu::cycle
  overflow_checks,  \* build profile: TRUE when `+=` on integers panics on overflow
  panicked,         \* a call has unwound with a panic
  resets,           \* number of reset() calls made after construction
  last,             \* observation of the last call: result, tick signal, bus activity
  via,              \* a Via driven on its own (device/via.rs)
  uart,             \* a Uart with its rings and source, driven on its own (device/uart.rs)
  ring,             \* a RingBuf driven on its own (device/uart.rs)
  bus,              \* a MappedMemory of recording regions, driven on its own
  alu,              \* a Cpu set up to execute one arithmetic instruction
  asm,              \* an Assembly at work on a list of instructions, and its output
  obs               \* observation of the last call made on via, uart, ring, bus or alu; the set-up of a case

cpu_vars == <<a, x, y, s, p, pc, memory, run, wai, cycle, overflow_checks, panicked, resets, last>>
device_vars == <<via, uart, ring, bus, alu, asm, obs>>
vars == <<a, x, y, s, p, pc, memory, run, wai, cycle, overflow_checks, panicked, resets, last,
          via, uart, ring, bus, alu, asm, obs>>

\* a component that the specification at hand does not drive
Absent == <<>>

\* ------------------------------------------------------------------------
\* Contiguous<M> (memory/contiguous.rs).  The boxed slice is zero-filled at
\* construction; `data` holds its non-zero bytes, every other offset reads 0.
\* ------------------------------------------------------------------------
Contiguous_read_u8(r, address) ==
  IF (address % r.len) \in DOMAIN r.data THEN r.data[address % r.len] ELSE 0

store(data, o, value) ==
  IF value = 0
  THEN [k \in (DOMAIN data) \ {o} |-> data[k]]
  ELSE [k \in (DOMAIN data) \cup {o} |-> IF k = o THEN value ELSE data[k]]

is_writeable(r) == r.kind = "ram"

Contiguous_write_u8(r, address, value) ==
  IF is_writeable(r)
  THEN [r EXCEPT !.data = store(@, address % r.len, value)]
  ELSE r

\* force_write_all: copies data[1..to_copy] to address.., discarding overhang
force_write_all(r, address, bytes) ==
  LET remaining == IF r.len > address THEN r.len - address ELSE 0
      to_copy == IF Len(bytes) < remaining THEN Len(bytes) ELSE remaining
      touched == {address + i - 1 : i \in 1..to_copy}
      nonzero == {o \in (DOMAIN r.data) \cup touched :
                    IF o \in touched THEN bytes[o - address + 1] # 0 ELSE TRUE}
  IN [r EXCEPT !.data =
        [o \in nonzero |-> IF o \in touched THEN bytes[o - address + 1] ELSE r.data[o]]]

force_write_u16(r, address, value) ==
  force_write_all(r, address, <<lo_byte(value), hi_byte(value)>>)

new_ram(size) == [kind |-> "ram", len |-> size, data |-> <<>>]
new_rom(size) == [kind |-> "rom", len |-> size, data |-> <<>>]

\* A device that occupies no address range and drives the interrupt lines:
\* an implementation of Memory whose update returns the signal on its inputs
new_line_device == [kind |-> "line", len |-> 0, data |-> <<>>]

\* a Via on the bus (Box<dyn Memory> holding the device).  `data` keeps,
\* for each register, the byte Via::read_u8 returns in the device's present
\* state; it is refreshed whenever the device changes.
refreshed(m) == [m EXCEPT !.data = [r \in 0..15 |-> Via_read_u8(m.via, r).v]]
new_via(v) == refreshed([kind |-> "via", len |-> 0, data |-> <<>>, via |-> v])

\* ------------------------------------------------------------------------
\* MappedMemory (memory/mapped.rs): Vec<(start, size, Box<dyn Memory>)>
\* ------------------------------------------------------------------------
add_memory(memories, address, size, m) ==
  Append(memories, [start |-> address, size |-> size, mem |-> m])

add_device(memories, m) == add_memory(memories, 0, 0, m)

saturating_add_u16(m, n) == IF m + n > 65535 THEN 65535 ELSE m + n

\* (*start..=start.saturating_add(*size - 1)).contains(&address), size # 0
contains(e, address) ==
  /\ e.size # 0
  /\ e.start <= address
  /\ address <= saturating_add_u16(e.start, e.size - 1)

SetMax(S) == CHOOSE m \in S : \A n \in S : n <= m

\* index of the region that handles address: iter_mut().rev() takes the last
\* registered match; 0 when no region matches
\* (handler_first: a bus searched in insertion order)
handler_first(memories, address) ==
  LET first_of(hits) == IF hits = {} THEN 0 ELSE CHOOSE m \in hits : \A n \in hits : m <= n
  IN first_of({i \in DOMAIN memories : contains(memories[i], address)})
handler(memories, address) ==
  LET last_of(hits) == IF hits = {} THEN 0 ELSE SetMax(hits)
  IN last_of({i \in DOMAIN memories : contains(memories[i], address)})

\* dyn Memory::read_u8 of a region
dyn_read_u8(m, address) ==
  CASE m.kind \in {"ram", "rom"} -> Contiguous_read_u8(m, address)
    [] m.kind = "via" -> IF address \in DOMAIN m.data THEN m.data[address] ELSE 0
    [] OTHER -> 0

\* the region after read_u8(&mut self, address): a read changes a Via
dyn_after_read(m, address) ==
  IF m.kind = "via" THEN refreshed([m EXCEPT !.via = Via_read_u8(@, address).via]) ELSE m

\* dyn Memory::write_u8 of a region
dyn_write_u8(m, address, value) ==
  CASE m.kind \in {"ram", "rom"} -> Contiguous_write_u8(m, address, value)
    [] m.kind = "via" -> refreshed([m EXCEPT !.via = Via_write_u8(@, address, value)])
    [] OTHER -> m

\* dyn Memory::update of a region; `lines` is the signal on the line device
dyn_update(m, c, lines) ==
  CASE m.kind = "line" -> lines
    [] m.kind = "via" -> Via_update(m.via, c).v
    [] OTHER -> Interrupt_none

\* the region after update(&mut self, cycle)
dyn_after_update(m, c) ==
  IF m.kind = "via" THEN refreshed([m EXCEPT !.via = Via_update(@, c).via]) ELSE m

MappedMemory_read_u8(memories, address) ==
  LET read_at(i) ==
        IF i = 0 THEN 0
        ELSE dyn_read_u8(memories[i].mem, address - memories[i].start)
  IN read_at(handler(memories, address))

MappedMemory_write_u8(memories, address, value) ==
  LET write_at(i) ==
        IF i = 0 THEN memories
        ELSE [memories EXCEPT ![i].mem = dyn_write_u8(@, address - memories[i].start, value)]
  IN write_at(handler(memories, address))

\* the regions after read_u8 at address
MappedMemory_after_read(memories, address) ==
  LET read_at(i) ==
        IF i = 0 THEN memories
        ELSE [memories EXCEPT ![i].mem = dyn_after_read(@, address - memories[i].start)]
  IN read_at(handler(memories, address))

\* the regions after the reads logged in log[i..]
RECURSIVE MappedMemory_after_reads(_, _, _)
MappedMemory_after_reads(memories, log, i) ==
  IF i > Len(log) THEN memories
  ELSE MappedMemory_after_reads(IF log[i][1] = "read"
                                THEN MappedMemory_after_read(memories, log[i][2])
                                ELSE memories, log, i + 1)

\* the regions after update(cycle)
MappedMemory_after_update(memories, c) ==
  [i \in DOMAIN memories |-> [memories[i] EXCEPT !.mem = dyn_after_update(@, c)]]

\* a device of the bus is in a call it does not leave, or has unwound
Stuck(memories) ==
  \E i \in DOMAIN memories :
    memories[i].mem.kind = "via" /\ (memories[i].mem.via.spinning \/ memories[i].mem.via.panicked)

\* update: every region in insertion order, results folded with or.
\* Returns the interrupt and the tick events <<"tick", region, cycle>>.
RECURSIVE update_fold(_, _, _, _, _)
update_fold(memories, c, lines, i, acc) ==
  IF i > Len(memories) THEN acc
  ELSE update_fold(memories, c, lines, i + 1,
         [interrupt |-> Interrupt_or(acc.interrupt, dyn_update(memories[i].mem, c, lines)),
          ticks |-> Append(acc.ticks, <<"tick", i, c>>)])

\* (a bus that ticks only the regions that occupy an address range)
RECURSIVE update_fold_sized(_, _, _, _, _)
update_fold_sized(memories, c, lines, i, acc) ==
  IF i > Len(memories) THEN acc
  ELSE update_fold_sized(memories, c, lines, i + 1,
         IF memories[i].size = 0 THEN acc
         ELSE [interrupt |-> Interrupt_or(acc.interrupt, dyn_update(memories[i].mem, c, lines)),
               ticks |-> Append(acc.ticks, <<"tick", i, c>>)])

MappedMemory_update_sized(memories, c, lines) ==
  update_fold_sized(memories, c, lines, 1, [interrupt |-> Interrupt_none, ticks |-> <<>>])

MappedMemory_update(memories, c, lines) ==
  update_fold(memories, c, lines, 1, [interrupt |-> Interrupt_none, ticks |-> <<>>])

\* update(cycle) with the regions it leaves
MappedMemory_tick(memories, c, lines) ==
  LET left(u) ==
        [interrupt |-> u.interrupt, ticks |-> u.ticks,
         memories |-> MappedMemory_after_update(memories, c)]
  IN left(MappedMemory_update(memories, c, lines))

\* ------------------------------------------------------------------------
\* Cpu<M> (cpu.rs).  The methods take the machine as a record
\*   [a, x, y, s, p, pc, memory, run, wai, cycle]
\* extended with the bus activity of the call (log), the value returned
\* (ret) and the unwinding state.  A method that returns a value gives
\* [st |-> machine after, v |-> value]; an intermediate result is handed on
\* as the argument of a local operator.
\* ------------------------------------------------------------------------
B2N(b) == IF b THEN 1 ELSE 0

Registers(st) ==
  [a |-> st.a, x |-> st.x, y |-> st.y, s |-> st.s, p |-> st.p, pc |-> st.pc,
   run |-> st.run, wai |-> st.wai, cycle |-> st.cycle]

\* a panic unwinds: the machine keeps the state it had at the panic
Panic(st) ==
  IF st.panicked THEN st ELSE [st EXCEPT !.panicked = TRUE, !.frozen = <<st>>]

\* self.memory.read_u8(address).  What a read does to a device (a read of
\* T1CL or T2CL clears a flag) is applied from the log when the instruction
\* is done (after_reads): no instruction reads such a register and then
\* accesses the device again in a way that depends on it.
Rd(st, address) ==
  LET got(v) == [st |-> [st EXCEPT !.log = Append(@, <<"read", address, v>>)], v |-> v]
  IN got(MappedMemory_read_u8(st.memory, address))

\* self.memory.write_u8(address, value)
Wr(st, address, value) ==
  [st EXCEPT !.memory = MappedMemory_write_u8(@, address, value),
             !.log = Append(@, <<"write", address, value>>)]

\* Memory::read_u16
read_u16(st, address) ==
  LET low(l) ==
        LET high(h) == [st |-> h.st, v |-> from_le_bytes(l.v, h.v)]
        IN high(Rd(l.st, U16(address + 1)))
  IN low(Rd(st, address))

\* (read_u16_zp_carrying: the high byte read at address + 1 without wrapping)
read_u16_zp_carrying(st, address) == read_u16(st, address)

\* Memory::read_u16_zp
read_u16_zp(st, address) ==
  LET low(l) ==
        LET high(h) == [st |-> h.st, v |-> from_le_bytes(l.v, h.v)]
        IN high(Rd(l.st, U8(address + 1)))
  IN low(Rd(st, address))

\* `self.pc += n`: overflow panics when overflow checks are compiled in and
\* wraps otherwise
pc_add(st, n) ==
  IF st.pc + n > 65535
  THEN IF overflow_checks THEN Panic(st) ELSE [st EXCEPT !.pc = U16(st.pc + n)]
  ELSE [st EXCEPT !.pc = st.pc + n]

read_u8_inc_pc(st) ==
  LET got(r) == [st |-> pc_add(r.st, 1), v |-> r.v]
  IN got(Rd(st, st.pc))

read_u16_inc_pc(st) ==
  LET got(r) == [st |-> pc_add(r.st, 2), v |-> r.v]
  IN got(read_u16(st, st.pc))

page_crossed(base, address) == (base \div 256) # (address \div 256)

\* an address operand: [st, v |-> address, cross |-> page boundary crossed]
Operand(st, v, cross) == [st |-> st, v |-> v, cross |-> cross]

\* base + index, with the page-cross test of the indexed modes
indexed(st, base, index) ==
  Operand(st, U16(base + index), page_crossed(base, U16(base + index)))

\* read_address_operand
read_address_operand(st, mode) ==
  LET byte_operand(r) ==
        CASE mode = "ProgramCounterRelative" ->
               Operand(r.st, U16(r.st.pc + as_i8(r.v)), FALSE)
          [] mode = "ZeroPage" -> Operand(r.st, r.v, FALSE)
          [] mode = "ZeroPageIndexedX" -> Operand(r.st, U8(r.v + r.st.x), FALSE)
          [] mode = "ZeroPageIndexedY" -> Operand(r.st, U8(r.v + r.st.y), FALSE)
          [] mode = "ZeroPageIndirect" ->
               LET target(t) == Operand(t.st, t.v, FALSE)
               IN target(read_u16_zp(r.st, r.v))
          [] mode = "ZeroPageIndexedIndirectX" ->
               LET target(t) == Operand(t.st, t.v, FALSE)
               IN target(read_u16_zp(r.st, U8(r.v + r.st.x)))
          [] OTHER ->
               LET target(t) == indexed(t.st, t.v, t.st.y)
               IN target(read_u16_zp(r.st, r.v))
      word_operand(r) ==
        CASE mode = "Absolute" -> Operand(r.st, r.v, FALSE)
          [] mode = "AbsoluteIndexedX" -> indexed(r.st, r.v, r.st.x)
          [] mode = "AbsoluteIndexedY" -> indexed(r.st, r.v, r.st.y)
          [] mode = "AbsoluteIndirect" ->
               LET target(t) == Operand(t.st, t.v, FALSE)
               IN target(read_u16(r.st, r.v))
          [] OTHER ->
               LET target(t) == Operand(t.st, t.v, FALSE)
               IN target(read_u16(r.st, U16(r.v + r.st.x)))
  IN CASE mode \in {"Absolute", "AbsoluteIndexedX", "AbsoluteIndexedY",
                    "AbsoluteIndirect", "AbsoluteIndexedIndirectX"} ->
            word_operand(read_u16_inc_pc(st))
       [] mode \in {"ProgramCounterRelative", "ZeroPage", "ZeroPageIndexedX",
                    "ZeroPageIndexedY", "ZeroPageIndirect", "ZeroPageIndexedIndirectX",
                    "ZeroPageIndirectIndexedY"} ->
            byte_operand(read_u8_inc_pc(st))
       [] OTHER -> Operand(Panic(st), 0, FALSE)

\* read_value_operand: [st, v |-> value, cross |-> page boundary crossed]
read_value_operand(st, mode) ==
  CASE mode = "Accumulator" -> Operand(st, st.a, FALSE)
    [] mode = "Immediate" ->
         LET got(r) == Operand(r.st, r.v, FALSE) IN got(read_u8_inc_pc(st))
    [] OTHER ->
         LET at(r) ==
               LET got(m) == Operand(m.st, m.v, r.cross) IN got(Rd(r.st, r.v))
         IN at(read_address_operand(st, mode))

set_p(st, n, v) == [st EXCEPT !.p = set_flag(@, n, v)]

update_nz_flags(st, value) ==
  set_p(set_p(st, ZERO, value = 0), NEGATIVE, BitAnd(value, 128) # 0)

set_a(st, value) == update_nz_flags([st EXCEPT !.a = value], value)
set_x(st, value) == update_nz_flags([st EXCEPT !.x = value], value)
set_y(st, value) == update_nz_flags([st EXCEPT !.y = value], value)

\* pushes and pops count the calls of push and pop made during the call
\* (push_upwards: a stack that grows towards higher addresses)
push_upwards(st, value) ==
  [Wr(st, 256 + st.s, value) EXCEPT !.s = U8(st.s + 1), !.pushes = @ + 1]
push(st, value) ==
  [Wr(st, 256 + st.s, value) EXCEPT !.s = U8(st.s - 1), !.pushes = @ + 1]

pop(st) ==
  LET at(t) == Rd(t, 256 + t.s)
  IN at([st EXCEPT !.s = U8(st.s + 1), !.pops = @ + 1])

push_pc_low_first(st) ==
  LET second(t) == push(t, hi_byte(st.pc))
  IN second(push(st, lo_byte(st.pc)))

push_pc(st) ==
  LET second(t) == push(t, lo_byte(st.pc))
  IN second(push(st, hi_byte(st.pc)))

\* (pop_pc_high_first: the bytes popped in the order they were pushed)
pop_pc_high_first(st) ==
  LET high(h) ==
        LET low(l) == [l.st EXCEPT !.pc = from_le_bytes(l.v, h.v)]
        IN low(pop(h.st))
  IN high(pop(st))
pop_pc(st) ==
  LET low(l) ==
        LET high(h) == [h.st EXCEPT !.pc = from_le_bytes(l.v, h.v)]
        IN high(pop(l.st))
  IN low(pop(st))

pop_flags_raw(st) ==
  LET got(r) == [r.st EXCEPT !.p = r.v]
  IN got(pop(st))

\* always set brk and unused flags
pop_flags(st) ==
  LET got(r) == [r.st EXCEPT !.p = BitOr(r.v, 48)]
  IN got(pop(st))

\* always set unused flag and brk flag
push_flags(st) == push(st, BitOr(st.p, 48))

\* always set unused flag
push_flags_no_brk(st) == push(st, BitOr(st.p, 32))

\* carry and overflow of a binary addition a0 + m + carry = r
addition_flags(st, a0, m, cf, r) ==
  set_p(set_p(set_a(st, r), CARRY, IF cf THEN r <= a0 ELSE r < a0),
        OVERFLOW, BitAnd(BitAnd(BitXor(a0, r), BitXor(m, r)), 128) # 0)

\* (an addition whose carry out ignores the carry in)
do_addition_plain_carry(st, m) ==
  addition_flags(st, st.a, m, FALSE, U8(st.a + m + B2N(flag(st.p, CARRY))))
do_addition(st, m) ==
  addition_flags(st, st.a, m, flag(st.p, CARRY), U8(st.a + m + B2N(flag(st.p, CARRY))))

\* a decimal digit above 9 is reduced by 10 and carries
decimal_digit(d) == IF d > 9 THEN (d - 10) % 16 ELSE d

\* accumulator and flags of a decimal operation whose high digit sum is hi0
decimal_flags(st, a0, m, lo, hi, carry, hi0) ==
  set_p(set_p(set_a(st, BitOr(lo, U8(hi * 16))), CARRY, carry),
        OVERFLOW,
        BitAnd(BitAnd(BitXor(a0, U8(BitAnd(hi0, 8) * 16)),
                      BitXor(m, U8(BitAnd(hi0, 8) * 16))), 128) # 0)

\* (a decimal addition whose low digit does not carry into the high digit)
do_addition_decimal_no_half_carry(st, m) ==
  LET low(lo0) ==
        LET high(hi0) ==
              decimal_flags(st, st.a, m, decimal_digit(lo0), decimal_digit(hi0),
                            hi0 > 9, hi0)
        IN high(U8((st.a \div 16) + (m \div 16)))
  IN low(U8((st.a % 16) + (m % 16) + B2N(flag(st.p, CARRY))))
do_addition_decimal(st, m) ==
  LET low(lo0) ==
        LET high(hi0) ==
              decimal_flags(st, st.a, m, decimal_digit(lo0), decimal_digit(hi0),
                            hi0 > 9, hi0)
        IN high(U8((st.a \div 16) + (m \div 16) + B2N(lo0 > 9)))
  IN low(U8((st.a % 16) + (m % 16) + B2N(flag(st.p, CARRY))))

\* (a subtraction that adds the two's complement)
do_subtraction_negated(st, m) == do_addition(st, U8(256 - m))
do_subtraction(st, m) == do_addition(st, BitNot8(m))

\* a decimal digit that borrowed is raised by 10
borrow_digit(d) == IF BitAnd(d, 128) # 0 THEN U8(d + 10) ELSE d

do_subtraction_decimal(st, m) ==
  LET low(lo0) ==
        LET high(hi0) ==
              decimal_flags(st, st.a, BitNot8(m),
                            borrow_digit(lo0) % 16,
                            U8(borrow_digit(hi0)
                               - B2N(BitAnd(borrow_digit(lo0), 128) # 0)) % 16,
                            ~(BitAnd(hi0, 128) # 0), hi0)
        IN high(U8((st.a \div 16) - (m \div 16) - B2N(BitAnd(lo0, 128) # 0)))
  IN low(U8((st.a % 16) - (m % 16) - B2N(~flag(st.p, CARRY))))

\* result of an opcode arm: the machine and the extra cycles it charges
Arm(st, extra) == [st |-> st, extra |-> extra]

\* (take_branch_flat: a taken branch charged one cycle wherever it lands)
take_branch_flat(r, condition) ==
  IF condition THEN Arm([r.st EXCEPT !.pc = r.v], 1) ELSE Arm(r.st, 0)

\* a taken branch to r.v: one more cycle, two when the target is on another page
take_branch(r, condition) ==
  IF condition
  THEN Arm([r.st EXCEPT !.pc = r.v], IF page_crossed(r.st.pc, r.v) THEN 2 ELSE 1)
  ELSE Arm(r.st, 0)

branch(st, condition) ==
  take_branch(read_address_operand(st, "ProgramCounterRelative"), condition)

bbr(st, bit) ==
  LET tested(m) ==
        take_branch(read_address_operand(m.st, "ProgramCounterRelative"),
                    Bit(m.v, bit) = 0)
  IN tested(read_value_operand(st, "ZeroPage"))

bbs(st, bit) ==
  LET tested(m) ==
        take_branch(read_address_operand(m.st, "ProgramCounterRelative"),
                    Bit(m.v, bit) # 0)
  IN tested(read_value_operand(st, "ZeroPage"))

\* (a comparison whose negative flag is the signed order)
cmp_signed_negative(st, reg, mode) ==
  LET compared(r) ==
        Arm(set_p(set_p(update_nz_flags(r.st, U8(reg - r.v)),
                        NEGATIVE, as_i8(reg) < as_i8(r.v)), CARRY, reg >= r.v),
            B2N(r.cross))
  IN compared(read_value_operand(st, mode))
\* (a comparison whose carry is the strict order)
cmp_strict(st, reg, mode) ==
  LET compared(r) ==
        Arm(set_p(update_nz_flags(r.st, U8(reg - r.v)), CARRY, reg > r.v),
            B2N(r.cross))
  IN compared(read_value_operand(st, mode))
cmp(st, reg, mode) ==
  LET compared(r) ==
        Arm(set_p(update_nz_flags(r.st, U8(reg - r.v)), CARRY, reg >= r.v),
            B2N(r.cross))
  IN compared(read_value_operand(st, mode))

\* read the byte at the address operand r: [st, v |-> byte, at |-> address, cross]
modify(r) ==
  LET got(m) == [st |-> m.st, v |-> m.v, at |-> r.v, cross |-> r.cross]
  IN got(Rd(r.st, r.v))

rmb(st, bit) ==
  LET changed(m) == Wr(m.st, m.at, BitAnd(m.v, BitNot8(2 ^ bit)))
  IN changed(modify(read_address_operand(st, "ZeroPage")))

smb(st, bit) ==
  LET changed(m) == Wr(m.st, m.at, BitOr(m.v, 2 ^ bit))
  IN changed(modify(read_address_operand(st, "ZeroPage")))

\* the arms that load a value operand and hand it to a register setter
load_arm(st, mode, reg) ==
  LET loaded(r) ==
        Arm(CASE reg = "a" -> set_a(r.st, r.v)
              [] reg = "x" -> set_x(r.st, r.v)
              [] OTHER -> set_y(r.st, r.v),
            B2N(r.cross))
  IN loaded(read_value_operand(st, mode))

\* AND / ORA / EOR
logic_arm(st, mode, m) ==
  LET combined(r) ==
        Arm(set_a(r.st, CASE m = "AND" -> BitAnd(r.st.a, r.v)
                          [] m = "ORA" -> BitOr(r.st.a, r.v)
                          [] OTHER -> BitXor(r.st.a, r.v)),
            B2N(r.cross))
  IN combined(read_value_operand(st, mode))

\* value and carry-out of ASL / LSR / ROL / ROR applied to m
shifted(m, op, cf) ==
  CASE op = "ASL" -> U8(m * 2)
    [] op = "LSR" -> m \div 2
    [] op = "ROL" -> BitOr(U8(m * 2), B2N(cf))
    [] OTHER -> BitOr(m \div 2, U8(B2N(cf) * 128))

shift_carry(m, op) ==
  IF op \in {"ASL", "ROL"} THEN BitAnd(m, 128) # 0 ELSE BitAnd(m, 1) # 0

shift_arm(st, mode, op) ==
  IF mode = "Accumulator"
  THEN Arm(set_p(set_a(st, shifted(st.a, op, flag(st.p, CARRY))),
                 CARRY, shift_carry(st.a, op)), 0)
  ELSE LET changed(m) ==
             LET stored(value) ==
                   Arm(set_p(update_nz_flags(Wr(m.st, m.at, value), value),
                             CARRY, shift_carry(m.v, op)),
                       B2N(m.cross))
             IN stored(shifted(m.v, op, flag(m.st.p, CARRY)))
       IN changed(modify(read_address_operand(st, mode)))

\* (incdec_arm_cross: INC and DEC charging the page cross in every mode)
incdec_arm_cross(st, mode, d) ==
  IF mode = "Accumulator"
  THEN Arm(set_a(st, U8(st.a + d)), 0)
  ELSE LET changed(m) ==
             Arm(update_nz_flags(Wr(m.st, m.at, U8(m.v + d)), U8(m.v + d)), B2N(m.cross))
       IN changed(modify(read_address_operand(st, mode)))

\* INC (d = 1) and DEC (d = -1)
incdec_arm(st, mode, d) ==
  IF mode = "Accumulator"
  THEN Arm(set_a(st, U8(st.a + d)), 0)
  ELSE LET changed(m) ==
             Arm(update_nz_flags(Wr(m.st, m.at, U8(m.v + d)), U8(m.v + d)),
                 B2N(m.cross /\ mode # "AbsoluteIndexedX"))
       IN changed(modify(read_address_operand(st, mode)))

store_arm(st, mode, value) ==
  LET stored(r) == Arm(Wr(r.st, r.v, value), 0)
  IN stored(read_address_operand(st, mode))

\* TRB (set = FALSE) and TSB (set = TRUE)
tsb_arm(st, mode, set) ==
  LET changed(m) ==
        Arm(set_p(Wr(m.st, m.at,
                     IF set THEN BitOr(m.v, m.st.a) ELSE BitAnd(m.v, BitNot8(m.st.a))),
                  ZERO, BitAnd(m.v, m.st.a) = 0),
            B2N(m.cross))
  IN changed(modify(read_address_operand(st, mode)))

BitIndex(m) ==
  CASE m \in {"BBR0", "BBS0", "RMB0", "SMB0"} -> 0
    [] m \in {"BBR1", "BBS1", "RMB1", "SMB1"} -> 1
    [] m \in {"BBR2", "BBS2", "RMB2", "SMB2"} -> 2
    [] m \in {"BBR3", "BBS3", "RMB3", "SMB3"} -> 3
    [] m \in {"BBR4", "BBS4", "RMB4", "SMB4"} -> 4
    [] m \in {"BBR5", "BBS5", "RMB5", "SMB5"} -> 5
    [] m \in {"BBR6", "BBS6", "RMB6", "SMB6"} -> 6
    [] OTHER -> 7

\* ADC / SBC: decimal mode costs one more cycle
adc_arm(r) ==
  IF flag(r.st.p, DECIMAL_MODE)
  THEN Arm(do_addition_decimal(r.st, r.v), B2N(r.cross) + 1)
  ELSE Arm(do_addition(r.st, r.v), B2N(r.cross))

sbc_arm(r) ==
  IF flag(r.st.p, DECIMAL_MODE)
  THEN Arm(do_subtraction_decimal(r.st, r.v), B2N(r.cross) + 1)
  ELSE Arm(do_subtraction(r.st, r.v), B2N(r.cross))

\* (bit_arm_all: BIT setting N and V in every mode)
bit_arm_all(r, mode) ==
  Arm(set_p(set_p(set_p(r.st, ZERO, BitAnd(r.st.a, r.v) = 0),
                  NEGATIVE, BitAnd(r.v, 128) # 0),
            OVERFLOW, BitAnd(r.v, 64) # 0), B2N(r.cross))

bit_arm(r, mode) ==
  IF mode # "Immediate"
  THEN Arm(set_p(set_p(set_p(r.st, ZERO, BitAnd(r.st.a, r.v) = 0),
                       NEGATIVE, BitAnd(r.v, 128) # 0),
                 OVERFLOW, BitAnd(r.v, 64) # 0), B2N(r.cross))
  ELSE Arm(set_p(r.st, ZERO, BitAnd(r.st.a, r.v) = 0), B2N(r.cross))

\* load pc from the vector word v
jump_vector(v) == [v.st EXCEPT !.pc = v.v]

brk_arm(st) ==
  Arm(jump_vector(
        read_u16(set_p(set_p(push_flags(push_pc([st EXCEPT !.pc = U16(st.pc + 1)])),
                             IRQB_DISABLE, TRUE), DECIMAL_MODE, FALSE),
                 IRQ_VECTOR)), 0)

jmp_arm(r) == Arm([r.st EXCEPT !.pc = r.v], B2N(r.cross))

\* (a JSR that pushes the address of the next instruction)
jsr_arm_pushes_next(r) ==
  Arm([push_pc(r.st) EXCEPT !.pc = r.v], B2N(r.cross))
jsr_arm(r) ==
  Arm([push_pc([r.st EXCEPT !.pc = U16(r.st.pc - 1)]) EXCEPT !.pc = r.v], B2N(r.cross))

pull_arm(r, reg) ==
  Arm(CASE reg = "a" -> set_a(r.st, r.v)
        [] reg = "x" -> set_x(r.st, r.v)
        [] OTHER -> set_y(r.st, r.v), 0)

rts_arm(t) == Arm([t EXCEPT !.pc = U16(t.pc + 1)], 0)

\* the `match opcode.opcode` of step_instruction: one arm per mnemonic
execute(st, opcode) ==
  LET m == opcode.opcode
      mode == opcode.parameter_1
  IN CASE m = "ADC" -> adc_arm(read_value_operand(st, mode))
       [] m = "SBC" -> sbc_arm(read_value_operand(st, mode))
       [] m \in {"AND", "ORA", "EOR"} -> logic_arm(st, mode, m)
       [] m \in ShiftMnemonics -> shift_arm(st, mode, m)
       [] m \in {"BBR0", "BBR1", "BBR2", "BBR3", "BBR4", "BBR5", "BBR6", "BBR7"} ->
            bbr(st, BitIndex(m))
       [] m \in {"BBS0", "BBS1", "BBS2", "BBS3", "BBS4", "BBS5", "BBS6", "BBS7"} ->
            bbs(st, BitIndex(m))
       [] m = "BCC" -> branch(st, ~flag(st.p, CARRY))
       [] m = "BCS" -> branch(st, flag(st.p, CARRY))
       [] m = "BEQ" -> branch(st, flag(st.p, ZERO))
       [] m = "BMI" -> branch(st, flag(st.p, NEGATIVE))
       [] m = "BNE" -> branch(st, ~flag(st.p, ZERO))
       [] m = "BPL" -> branch(st, ~flag(st.p, NEGATIVE))
       [] m = "BRA" -> branch(st, TRUE)
       [] m = "BVC" -> branch(st, ~flag(st.p, OVERFLOW))
       [] m = "BVS" -> branch(st, flag(st.p, OVERFLOW))
       [] m = "BIT" -> bit_arm(read_value_operand(st, mode), mode)
       [] m = "BRK" -> brk_arm(st)
       [] m = "CLC" -> Arm(set_p(st, CARRY, FALSE), 0)
       [] m = "CLD" -> Arm(set_p(st, DECIMAL_MODE, FALSE), 0)
       [] m = "CLI" -> Arm(set_p(st, IRQB_DISABLE, FALSE), 0)
       [] m = "CLV" -> Arm(set_p(st, OVERFLOW, FALSE), 0)
       [] m = "CMP" -> cmp(st, st.a, mode)
       [] m = "CPX" -> cmp(st, st.x, mode)
       [] m = "CPY" -> cmp(st, st.y, mode)
       [] m = "DEC" -> incdec_arm(st, mode, -1)
       [] m = "INC" -> incdec_arm(st, mode, 1)
       [] m = "DEX" -> Arm(set_x(st, U8(st.x - 1)), 0)
       [] m = "DEY" -> Arm(set_y(st, U8(st.y - 1)), 0)
       [] m = "INX" -> Arm(set_x(st, U8(st.x + 1)), 0)
       [] m = "INY" -> Arm(set_y(st, U8(st.y + 1)), 0)
       [] m = "JMP" -> jmp_arm(read_address_operand(st, mode))
       [] m = "JSR" -> jsr_arm(read_address_operand(st, mode))
       [] m = "LDA" -> load_arm(st, mode, "a")
       [] m = "LDX" -> load_arm(st, mode, "x")
       [] m = "LDY" -> load_arm(st, mode, "y")
       [] m = "NOP" -> Arm(st, 0)
       [] m = "PHA" -> Arm(push(st, st.a), 0)
       [] m = "PHP" -> Arm(push_flags(st), 0)
       [] m = "PHX" -> Arm(push(st, st.x), 0)
       [] m = "PHY" -> Arm(push(st, st.y), 0)
       [] m = "PLA" -> pull_arm(pop(st), "a")
       [] m = "PLP" -> Arm(pop_flags(st), 0)
       [] m = "PLX" -> pull_arm(pop(st), "x")
       [] m = "PLY" -> pull_arm(pop(st), "y")
       [] m \in {"RMB0", "RMB1", "RMB2", "RMB3", "RMB4", "RMB5", "RMB6", "RMB7"} ->
            Arm(rmb(st, BitIndex(m)), 0)
       [] m \in {"SMB0", "SMB1", "SMB2", "SMB3", "SMB4", "SMB5", "SMB6", "SMB7"} ->
            Arm(smb(st, BitIndex(m)), 0)
       [] m = "RTI" -> Arm(pop_pc(pop_flags(st)), 0)
       [] m = "RTS" -> rts_arm(pop_pc(st))
       [] m = "SEC" -> Arm(set_p(st, CARRY, TRUE), 0)
       [] m = "SED" -> Arm(set_p(st, DECIMAL_MODE, TRUE), 0)
       [] m = "SEI" -> Arm(set_p(st, IRQB_DISABLE, TRUE), 0)
       [] m = "STA" -> store_arm(st, mode, st.a)
       [] m = "STX" -> store_arm(st, mode, st.x)
       [] m = "STY" -> store_arm(st, mode, st.y)
       [] m = "STZ" -> store_arm(st, mode, 0)
       [] m = "STP" -> Arm([st EXCEPT !.run = FALSE], 0)
       [] m = "TAX" -> Arm(set_x(st, st.a), 0)
       [] m = "TAY" -> Arm(set_y(st, st.a), 0)
       [] m \in {"TRB", "TSB"} -> tsb_arm(st, mode, m = "TSB")
       [] m = "TSX" -> Arm(set_x(st, st.s), 0)
       [] m = "TXA" -> Arm(set_a(st, st.x), 0)
       [] m = "TXS" -> Arm([st EXCEPT !.s = st.x], 0)
       [] m = "TYA" -> Arm(set_a(st, st.y), 0)
       [] m = "WAI" -> Arm([st EXCEPT !.wai = TRUE], 0)

\* `interrupt.is_nmi() || interrupt.is_irq()`: the signal ends the WAI wait
wakes_nmi_only(interrupt) == is_nmi(interrupt)
wakes(interrupt) == is_nmi(interrupt) \/ is_irq(interrupt)

\* `interrupt.is_nmi() || (interrupt.is_irq() && !self.p.irqb_disable())`
interrupt_taken(interrupt, status) ==
  is_nmi(interrupt) \/ (is_irq(interrupt) /\ ~flag(status, IRQB_DISABLE))

\* the vector read by the interrupt sequence
interrupt_vector_irq_first(interrupt) ==
  IF is_irq(interrupt) THEN IRQ_VECTOR ELSE NMI_VECTOR
interrupt_vector(interrupt) ==
  IF is_nmi(interrupt) THEN NMI_VECTOR ELSE IRQ_VECTOR

\* the interrupt sample of step_instruction: the bus is ticked at the current
\* cycle and a signalled NMI, or an IRQ that is not masked, is taken
sample_interrupt(st, lines) ==
  LET sampled(u) ==
        LET woken(t1) ==
              IF Stuck(u.memories) THEN Panic(t1)
              ELSE IF interrupt_taken(u.interrupt, t1.p)
              THEN [jump_vector(
                      read_u16(set_p(set_p(push_flags_no_brk(push_pc(t1)),
                                           IRQB_DISABLE, TRUE), DECIMAL_MODE, FALSE),
                               interrupt_vector(u.interrupt)))
                    EXCEPT !.seq = IF is_nmi(u.interrupt) THEN "nmi" ELSE "irq"]
              ELSE t1
        IN woken([st EXCEPT !.memory = u.memories, !.log = @ \o u.ticks,
                            !.irq = is_irq(u.interrupt), !.nmi = is_nmi(u.interrupt),
                            !.wai = IF wakes(u.interrupt) THEN FALSE ELSE @])
  IN sampled(MappedMemory_tick(st.memory, st.cycle, lines))

\* fetch, decode and execute: the `if !self.wai` block of step_instruction.
\* cycle is a usize; the explored counter stays far below its wrap-around.
\* (fetch_execute_two_bytes: an undocumented byte taken as a two-byte, two-cycle NOP)
fetch_execute_two_bytes(st) ==
  LET fetched_byte(f) ==
        LET decoded(opcode) ==
              IF is_some(opcode)
              THEN LET executed(r) ==
                         [r.st EXCEPT !.cycle = @ + opcode.cycles + r.extra,
                                      !.ret = opcode.cycles + r.extra]
                   IN executed(execute([f.st EXCEPT !.fetched = f.v], opcode))
              ELSE [pc_add(f.st, 1) EXCEPT !.fetched = f.v, !.cycle = @ + 2, !.ret = 2]
        IN decoded(get_instruction(f.v))
  IN fetched_byte(read_u8_inc_pc(st))
fetch_execute(st) ==
  LET fetched_byte(f) ==
        LET decoded(opcode) ==
              IF is_some(opcode)
              THEN LET executed(r) ==
                         [r.st EXCEPT !.cycle = @ + opcode.cycles + r.extra,
                                      !.ret = opcode.cycles + r.extra]
                   IN executed(execute([f.st EXCEPT !.fetched = f.v], opcode))
              ELSE [f.st EXCEPT !.fetched = f.v, !.cycle = @ + 1, !.ret = 1]
        IN decoded(get_instruction(f.v))
  IN fetched_byte(read_u8_inc_pc(st))

\* `if !self.run { return 0; }`
halted_never(st) == FALSE
halted(st) == ~st.run

\* execute one instruction, returns the number of elapsed cycles (ret).
\* mid records the registers as the interrupt sample leaves them.
step_instruction(st, lines) ==
  IF halted(st)
  THEN [st EXCEPT !.ret = 0]
  ELSE LET after_reads(r) ==
             LET left(memories) ==
                   IF Stuck(memories)
                   THEN Panic([r EXCEPT !.memory = memories])
                   ELSE [r EXCEPT !.memory = memories]
             IN left(MappedMemory_after_reads(r.memory, r.log, 1))
           sampled(t) ==
             IF ~t.wai
             THEN after_reads(fetch_execute([t EXCEPT !.mid = Registers(t)]))
             ELSE [t EXCEPT !.mid = Registers(t), !.ret = 1]
       IN sampled(sample_interrupt(st, lines))

reset_keeps_wai(st) ==
  LET vectored(v) == [v.st EXCEPT !.pc = v.v, !.cycle = 0]
  IN vectored(read_u16([st EXCEPT !.run = TRUE, !.a = 0, !.x = 0, !.y = 0,
                                  !.s = INITIAL_STACK_POINTER, !.p = Status_default],
                       RESET_VECTOR))
reset(st) ==
  LET vectored(v) == [v.st EXCEPT !.pc = v.v, !.wai = FALSE, !.cycle = 0]
  IN vectored(read_u16([st EXCEPT !.run = TRUE, !.a = 0, !.x = 0, !.y = 0,
                                  !.s = INITIAL_STACK_POINTER, !.p = Status_default],
                       RESET_VECTOR))

\* ------------------------------------------------------------------------
\* Construction: the bus of frontend.rs (RAM at 0x0000, ROM at 0xE000 holding
\* the loaded program and the vectors) plus the interrupt line device
\* ------------------------------------------------------------------------
RAM_SIZE == 40960
ROM_BASE == 57344
ROM_SIZE == 8192
IRQ_HANDLER == ROM_BASE + 16
NMI_HANDLER == ROM_BASE + 32
STACK_PAGE == 256

\* programs loaded at ROM_BASE (the reset vector points there)
Programs ==
  { <<88, 203, 234, 219>>,      \* CLI; WAI; NOP; STP
    <<203, 234, 219>>,          \* WAI; NOP; STP
    <<40, 8, 0>>,               \* PLP; PHP; BRK
    <<162, 1, 154, 88, 234>>,   \* LDX #1; TXS; CLI; NOP
    <<2, 248, 56, 0>>,          \* (undocumented 0x02); SED; SEC; BRK
    <<64>>,                     \* RTI
    <<219>> }                   \* STP
\* interrupt handlers
IrqHandler == <<64>>            \* RTI
NmiHandler == <<40, 64>>        \* PLP; RTI
\* bytes found at 0x01FE, the first byte popped after reset
SeedBytes == {0, 203, 255}

image(program, seed) ==
  LET ram0 == new_ram(RAM_SIZE)
      ram == force_write_all(force_write_all(ram0, STACK_PAGE, <<hi_byte(ROM_BASE)>>),
                             STACK_PAGE + 254, <<seed, lo_byte(ROM_BASE)>>)
      rom0 == force_write_all(new_rom(ROM_SIZE), 0, program)
      rom1 == force_write_all(rom0, IRQ_HANDLER - ROM_BASE, IrqHandler)
      rom2 == force_write_all(rom1, NMI_HANDLER - ROM_BASE, NmiHandler)
      rom3 == force_write_u16(rom2, RESET_VECTOR - ROM_BASE, ROM_BASE)
      rom4 == force_write_u16(rom3, IRQ_VECTOR - ROM_BASE, IRQ_HANDLER)
      rom == force_write_u16(rom4, NMI_VECTOR - ROM_BASE, NMI_HANDLER)
  IN add_device(add_memory(add_memory(<<>>, 0, RAM_SIZE, ram), ROM_BASE, ROM_SIZE, rom),
                new_line_device)

\* ------------------------------------------------------------------------
\* The machine as a record, and the observation of a call
\* ------------------------------------------------------------------------
Machine(ra, rx, ry, rs, rp, rpc, mem, rrun, rwai, rcycle) ==
  [a |-> ra, x |-> rx, y |-> ry, s |-> rs, p |-> rp, pc |-> rpc, memory |-> mem,
   run |-> rrun, wai |-> rwai, cycle |-> rcycle,
   log |-> <<>>, seq |-> "none", ret |-> 0, irq |-> FALSE, nmi |-> FALSE,
   fetched |-> -1, panicked |-> FALSE, frozen |-> <<>>, pushes |-> 0, pops |-> 0,
   mid |-> [a |-> ra, x |-> rx, y |-> ry, s |-> rs, p |-> rp, pc |-> rpc,
            run |-> rrun, wai |-> rwai, cycle |-> rcycle]]

Current == Machine(a, x, y, s, p, pc, memory, run, wai, cycle)

\* what a call leaves behind: the state at the panic if it unwound
Outcome(r) == IF r.panicked THEN r.frozen[1] ELSE r

Observation(call, before, r) ==
  [call |-> IF r.panicked THEN "panic" ELSE call,
   ret |-> r.ret, irq |-> r.irq, nmi |-> r.nmi, seq |-> r.seq, fetched |-> r.fetched,
   log |-> r.log, pre |-> Registers(before), mid |-> r.mid,
   pushes |-> r.pushes, pops |-> r.pops]

Commit(call, before, r) ==
  LET o == Outcome(r)
  IN /\ a' = o.a
     /\ x' = o.x
     /\ y' = o.y
     /\ s' = o.s
     /\ p' = o.p
     /\ pc' = o.pc
     /\ memory' = o.memory
     /\ run' = o.run
     /\ wai' = o.wai
     /\ cycle' = o.cycle
     /\ panicked' = r.panicked
     /\ last' = Observation(call, before, r)

\* Cpu::new(memory): every field zeroed, then reset()
Init ==
  \E program \in Programs, seed \in SeedBytes, oc \in BOOLEAN :
    LET constructed(before, r) ==
       /\ overflow_checks = oc
       /\ a = r.a
       /\ x = r.x
       /\ y = r.y
       /\ s = r.s
       /\ p = r.p
       /\ pc = r.pc
       /\ memory = r.memory
       /\ run = r.run
       /\ wai = r.wai
       /\ cycle = r.cycle
       /\ panicked = FALSE
       /\ resets = 0
       /\ last = Observation("new", before, r)
       /\ via = Absent /\ uart = Absent /\ ring = Absent
       /\ bus = Absent /\ alu = Absent /\ asm = Absent /\ obs = Absent
        started(before) == constructed(before, reset(before))
    IN started(Machine(0, 0, 0, 0, Status_default, 0, image(program, seed),
                       FALSE, FALSE, 0))

\* one call of step_instruction; lines is the signal on the interrupt lines
Step(lines) ==
  /\ ~panicked
  /\ cycle < MaxCycle
  /\ Commit("step", Current, step_instruction(Current, lines))
  /\ UNCHANGED <<overflow_checks, resets>>
  /\ UNCHANGED device_vars

\* one call of reset
Reset ==
  /\ ~panicked
  /\ resets < MaxResets
  /\ resets' = resets + 1
  /\ Commit("reset", Current, reset(Current))
  /\ UNCHANGED overflow_checks
  /\ UNCHANGED device_vars

Next ==
  \/ \E lines \in InterruptSignals : Step(lines)
  \/ Reset

Spec == Init /\ [][Next]_vars

TypeOK ==
  /\ a \in 0..255 /\ x \in 0..255 /\ y \in 0..255 /\ s \in 0..255 /\ p \in 0..255
  /\ pc \in 0..65535
  /\ run \in BOOLEAN /\ wai \in BOOLEAN
  /\ cycle \in Nat

\* ------------------------------------------------------------------------
\* A Via driven by register reads, register writes and ticks
\* ------------------------------------------------------------------------
MaxViaCycle == 5
MaxViaWrites == 3

\* the register writes that are explored
ViaWrites ==
  { <<VIA_DDRA, 7>>,
    <<VIA_T1CL, 1>>, <<VIA_T1CL, 2>>, <<VIA_T1CH, 0>>,
    <<VIA_T2CL, 1>>, <<VIA_T2CH, 0>>,
    <<VIA_ACR, 64>>,
    <<VIA_IER, 192>>, <<VIA_IER, 64>>, <<VIA_IFR, 255>>, <<VIA_IFR, 0>> }

ViaElapsed == {1, 2}

\* the register reads that are explored: the port, the flag-clearing counter
\* reads, the interrupt registers, a plain register and an address past 0xF
ViaReads == {VIA_IORA, VIA_T1CL, VIA_T2CL, VIA_IFR, VIA_IER, VIA_ACR, 16}

CpuAbsent ==
  /\ a = 0 /\ x = 0 /\ y = 0 /\ s = 0 /\ p = 0 /\ pc = 0
  /\ memory = <<>> /\ run = FALSE /\ wai = FALSE /\ cycle = 0
  /\ overflow_checks = FALSE /\ panicked = FALSE /\ resets = 0 /\ last = Absent

ViaObservation(call, address, value, r) ==
  [call |-> IF r.via.panicked THEN "panic" ELSE call,
   address |-> address, value |-> value, ret |-> r.v]

InitVia ==
  /\ CpuAbsent
  /\ via = Via_default
  /\ uart = Absent /\ ring = Absent /\ bus = Absent /\ alu = Absent /\ asm = Absent
  /\ obs = ViaObservation("new", 0, 0, Answer(Via_default, 0))

ViaCommit(call, address, value, r) ==
  /\ via' = r.via
  /\ obs' = ViaObservation(call, address, value, r)
  /\ UNCHANGED cpu_vars
  /\ UNCHANGED <<uart, ring, bus, alu, asm>>

ViaRead(address) ==
  /\ ~via.panicked
  /\ ViaCommit("read", address, 0, Via_read_u8(via, address))

ViaWrite(address, value) ==
  /\ ~via.panicked
  /\ via.writes < MaxViaWrites
  /\ ViaCommit("write", address, value,
               Answer([Via_write_u8(via, address, value) EXCEPT !.writes = @ + 1], 0))

ViaTick(elapsed) ==
  /\ ~via.panicked
  /\ via.last_update + elapsed <= MaxViaCycle
  /\ ViaCommit("tick", via.last_update + elapsed, 0,
               Via_update(via, via.last_update + elapsed))

NextVia ==
  \/ \E address \in ViaReads : ViaRead(address)
  \/ \E w \in ViaWrites : ViaWrite(w[1], w[2])
  \/ \E elapsed \in ViaElapsed : ViaTick(elapsed)

SpecVia == InitVia /\ [][NextVia]_vars

\* ------------------------------------------------------------------------
\* RingBuf (device/uart.rs): buf, head and tail
\* ------------------------------------------------------------------------
UART_BUFFER_SIZE == 8

RingBuf_new == [buf |-> [i \in 0..(UART_BUFFER_SIZE - 1) |-> 0], head |-> 0, tail |-> 0]

capacity(r) == UART_BUFFER_SIZE

RingBuf_len(r) == U8(r.head - r.tail) % capacity(r)

is_empty(r) == r.head = r.tail

\* (a ring that fills all of its slots)
is_full_never(r) == FALSE
is_full(r) == U8(r.head + 1) % capacity(r) = r.tail

set_head(r, head) == [r EXCEPT !.head = head % capacity(r)]

set_tail(r, tail) == [r EXCEPT !.tail = tail % capacity(r)]

\* push: [ring |-> the ring after, v |-> the bool returned]
RingBuf_push(r, value) ==
  IF is_full(r)
  THEN [ring |-> r, v |-> FALSE]
  ELSE [ring |-> [r EXCEPT !.buf[r.head] = value,
                           !.head = U8(r.head + 1) % capacity(r)],
        v |-> TRUE]

\* Option<u8>
None == [some |-> FALSE, value |-> 0]
Some(value) == [some |-> TRUE, value |-> value]

\* pop: [ring |-> the ring after, v |-> the Option returned]
RingBuf_pop(r) ==
  IF is_empty(r)
  THEN [ring |-> r, v |-> None]
  ELSE [ring |-> [r EXCEPT !.tail = U8(r.tail + 1) % capacity(r)],
        v |-> Some(r.buf[r.tail])]

get(r, index) == r.buf[index % capacity(r)]

set(r, index, value) == [r EXCEPT !.buf[index % capacity(r)] = value]

\* ------------------------------------------------------------------------
\* A RingBuf driven by push and pop calls.  The bytes pushed are numbered
\* 1, 2, 3, ...; obs carries the queue of the bytes that were accepted and
\* not yet popped.
\* ------------------------------------------------------------------------
MaxRingCalls == 12

RingObservation(call, value, ret, queue, calls) ==
  [call |-> call, value |-> value, ret |-> ret, queue |-> queue, calls |-> calls]

InitRing ==
  /\ CpuAbsent
  /\ ring = RingBuf_new
  /\ via = Absent /\ uart = Absent /\ bus = Absent /\ alu = Absent /\ asm = Absent
  /\ obs = RingObservation("new", 0, FALSE, <<>>, 0)

RingPush ==
  LET pushed(value, r) ==
        /\ ring' = r.ring
        /\ obs' = RingObservation("push", value, r.v,
                                  IF r.v THEN Append(obs.queue, value) ELSE obs.queue,
                                  obs.calls + 1)
      numbered(value) == pushed(value, RingBuf_push(ring, value))
  IN /\ obs.calls < MaxRingCalls
     /\ numbered(obs.calls + 1)
     /\ UNCHANGED cpu_vars
     /\ UNCHANGED <<via, uart, bus, alu, asm>>

RingPop ==
  LET popped(r) ==
        /\ ring' = r.ring
        /\ obs' = RingObservation("pop", 0, r.v,
                                  IF r.v.some THEN Tail(obs.queue) ELSE obs.queue,
                                  obs.calls + 1)
  IN /\ obs.calls < MaxRingCalls
     /\ popped(RingBuf_pop(ring))
     /\ UNCHANGED cpu_vars
     /\ UNCHANGED <<via, uart, bus, alu, asm>>

NextRing == RingPush \/ RingPop

SpecRing == InitRing /\ [][NextRing]_vars

\* ------------------------------------------------------------------------
\* UartSource and Uart (device/uart.rs)
\* ------------------------------------------------------------------------
UART_CNTL == 0
UART_CMND == 1
UART_STAT == 2
UART_RXHD == 4
UART_RXTL == 5
UART_TXHD == 6
UART_TXTL == 7
UART_RXBF == 8
UART_TXBF == UART_RXBF + UART_BUFFER_SIZE
UART_END == UART_TXBF + UART_BUFFER_SIZE

UartSource_new(bytes) == [source |-> bytes, pos |-> 0]

has_next(src) == src.pos < Len(src.source)

\* UartSource::read: [src |-> the source after, v |-> the Option returned]
UartSource_read(src) ==
  IF has_next(src)
  THEN [src |-> [src EXCEPT !.pos = @ + 1], v |-> Some(src.source[src.pos + 1])]
  ELSE [src |-> src, v |-> None]

Uart_new(src) ==
  [control |-> 0, command |-> 0, status |-> 0,
   receive_buffer |-> RingBuf_new, transmit_buffer |-> RingBuf_new, source |-> src]

is_enabled(u) == BitAnd(u.command, 1) # 0

\* (a state update that leaves the rings alone when the UART is disabled)
update_state_keep(u) ==
  IF BitAnd(u.command, 1) # 0
  THEN [u EXCEPT !.status = 64]
  ELSE [u EXCEPT !.status = 0]
update_state(u) ==
  IF BitAnd(u.command, 1) # 0
  THEN [u EXCEPT !.status = 64]
  ELSE [u EXCEPT !.status = 0,
                 !.receive_buffer = set_head(@, 0),
                 !.transmit_buffer = set_tail(@, 0)]

Uart_read_u8(u, address) ==
  CASE address = UART_CNTL -> u.control
    [] address = UART_CMND -> u.command
    [] address = UART_STAT -> u.status
    [] address = UART_RXHD -> u.receive_buffer.head
    [] address = UART_RXTL -> u.receive_buffer.tail
    [] address = UART_TXHD -> u.transmit_buffer.head
    [] address = UART_TXTL -> u.transmit_buffer.tail
    [] address \in UART_RXBF..(UART_TXBF - 1) -> get(u.receive_buffer, address - UART_RXBF)
    [] address \in UART_TXBF..(UART_END - 1) -> get(u.transmit_buffer, address - UART_TXBF)
    [] OTHER -> 0

Uart_write_u8(u, address, value) ==
  CASE address = UART_CNTL -> [u EXCEPT !.control = value]
    [] address = UART_CMND -> [u EXCEPT !.command = value]
    [] address = UART_STAT -> u
    [] address = UART_RXHD -> [u EXCEPT !.receive_buffer = set_head(@, value)]
    [] address = UART_RXTL -> [u EXCEPT !.receive_buffer = set_tail(@, value)]
    [] address = UART_TXHD -> [u EXCEPT !.transmit_buffer = set_head(@, value)]
    [] address = UART_TXTL -> [u EXCEPT !.transmit_buffer = set_tail(@, value)]
    [] address \in UART_RXBF..(UART_TXBF - 1) ->
         [u EXCEPT !.receive_buffer = set(@, address - UART_RXBF, value)]
    [] address \in UART_TXBF..(UART_END - 1) ->
         [u EXCEPT !.transmit_buffer = set(@, address - UART_TXBF, value)]
    [] OTHER -> u

\* while let Some(c) = tx.pop() { discard }
RECURSIVE transmit(_)
transmit(tx) ==
  IF RingBuf_pop(tx).v.some THEN transmit(RingBuf_pop(tx).ring) ELSE tx

\* while !rx.is_full() { if let Some(value) = source.read() { rx.push(value) } else { break } }
\* (receive_unchecked: a loop that pushes until the source runs dry)
RECURSIVE receive_unchecked(_)
receive_unchecked(u) ==
  IF ~UartSource_read(u.source).v.some THEN u
  ELSE receive_unchecked(
         [u EXCEPT !.source = UartSource_read(u.source).src,
                   !.receive_buffer =
                      RingBuf_push(@, UartSource_read(u.source).v.value).ring])
RECURSIVE receive(_)
receive(u) ==
  IF is_full(u.receive_buffer) \/ ~UartSource_read(u.source).v.some THEN u
  ELSE receive(
         [u EXCEPT !.source = UartSource_read(u.source).src,
                   !.receive_buffer =
                      RingBuf_push(@, UartSource_read(u.source).v.value).ring])

\* update: the Uart after the tick (the Interrupt returned is always none)
Uart_update_unchecked(u) ==
  LET updated(w) ==
        IF is_enabled(w)
        THEN receive_unchecked([w EXCEPT !.transmit_buffer = transmit(@)])
        ELSE w
  IN updated(update_state(u))
Uart_update(u) ==
  LET updated(w) ==
        IF is_enabled(w)
        THEN receive([w EXCEPT !.transmit_buffer = transmit(@)])
        ELSE w
  IN updated(update_state(u))

\* ------------------------------------------------------------------------
\* A Uart driven by ticks, by register writes, and by a consumer that, when
\* RXHD and RXTL differ, reads RXBF[RXTL] (take) and then writes RXTL + 1
\* (advance).  uart holds the device (dev), the byte the consumer has read
\* and not yet released (taken), the bytes it has consumed (received),
\* whether every tick so far found CMND bit 0 set (enabled), and the number
\* of register writes made.
\* ------------------------------------------------------------------------
MaxSource == 9
MaxUartWrites == 3

\* the bytes the host sends: 1, 2, 3, ...
SourceBytes == [i \in 1..MaxSource |-> i]

\* the register writes that are explored
UartWrites ==
  { <<UART_CMND, 1>>, <<UART_CMND, 0>>, <<UART_STAT, 255>>,
    <<UART_TXBF, 65>>, <<UART_TXHD, 1>> }

UartObservation(call, address, value, ret) ==
  [call |-> call, address |-> address, value |-> value, ret |-> ret]

InitUart ==
  /\ CpuAbsent
  /\ uart = [dev |-> Uart_new(UartSource_new(SourceBytes)), taken |-> None,
             received |-> <<>>, enabled |-> TRUE, writes |-> 0]
  /\ via = Absent /\ ring = Absent /\ bus = Absent /\ alu = Absent /\ asm = Absent
  /\ obs = UartObservation("new", 0, 0, 0)

UartIdle ==
  /\ UNCHANGED cpu_vars
  /\ UNCHANGED <<via, ring, bus, alu, asm>>

UartTick ==
  /\ uart' = [uart EXCEPT !.dev = Uart_update(@),
                          !.enabled = @ /\ is_enabled(uart.dev)]
  /\ obs' = UartObservation("tick", 0, 0, 0)
  /\ UartIdle

UartWrite(address, value) ==
  /\ uart.writes < MaxUartWrites
  /\ uart' = [uart EXCEPT !.dev = Uart_write_u8(@, address, value), !.writes = @ + 1]
  /\ obs' = UartObservation("write", address, value, 0)
  /\ UartIdle

UartRead(address) ==
  /\ obs' = UartObservation("read", address, 0, Uart_read_u8(uart.dev, address))
  /\ UNCHANGED uart
  /\ UartIdle

\* the consumer finds RXHD # RXTL and reads the byte at RXBF + RXTL
ConsumerTake ==
  /\ ~uart.taken.some
  /\ Uart_read_u8(uart.dev, UART_RXHD) # Uart_read_u8(uart.dev, UART_RXTL)
  /\ uart' = [uart EXCEPT !.taken =
                Some(Uart_read_u8(uart.dev, UART_RXBF + Uart_read_u8(uart.dev, UART_RXTL)))]
  /\ obs' = UartObservation("take", UART_RXBF + Uart_read_u8(uart.dev, UART_RXTL), 0,
                            Uart_read_u8(uart.dev,
                                         UART_RXBF + Uart_read_u8(uart.dev, UART_RXTL)))
  /\ UartIdle

\* the consumer writes RXTL + 1 to RXTL
ConsumerAdvance ==
  /\ uart.taken.some
  /\ uart' = [uart EXCEPT !.dev = Uart_write_u8(@, UART_RXTL,
                                                U8(Uart_read_u8(uart.dev, UART_RXTL) + 1)),
                          !.taken = None,
                          !.received = Append(@, uart.taken.value)]
  /\ obs' = UartObservation("advance", UART_RXTL,
                            U8(Uart_read_u8(uart.dev, UART_RXTL) + 1), 0)
  /\ UartIdle

NextUart ==
  \/ UartTick
  \/ \E w \in UartWrites : UartWrite(w[1], w[2])
  \/ \E address \in {UART_STAT, UART_RXHD, UART_TXTL} : UartRead(address)
  \/ ConsumerTake
  \/ ConsumerAdvance

SpecUart == InitUart /\ [][NextUart]_vars

\* ------------------------------------------------------------------------
\* A MappedMemory built by add_memory calls and driven by reads and writes.
\* Every region is a RAM of the full address width whose bytes tell the
\* region and the offset they are read from.
\* ------------------------------------------------------------------------
MaxRegions == 3
MaxBusWrites == 1

\* the (start, size) arguments of add_memory that are explored: a range that
\* ends below 0xFFFF, one-byte ranges, a range cut at 0xFFFF, a size of 0
BusRanges == {<<0, 65535>>, <<0, 1>>, <<255, 1>>, <<65280, 65535>>, <<255, 0>>}
BusAddresses == {0, 254, 255, 256, 65280, 65535}
BusValues == {0, 170}

\* the offsets at which an explored address can reach a region
BusOffsets == {address - range[1] : address \in BusAddresses, range \in BusRanges} \cap Nat

\* the byte region i holds at offset o before any write
marker(i, o) == U8((i - 1) * 80 + (o % 67) + 1)

\* the i-th region added: Contiguous::new_ram, filled
marked_ram(i) ==
  [kind |-> "ram", len |-> 65536, data |-> [o \in BusOffsets |-> marker(i, o)]]

BusObservation(call, address, value, ret) ==
  [call |-> call, address |-> address, value |-> value, ret |-> ret]

\* MappedMemory::new()
InitBus ==
  /\ CpuAbsent
  /\ bus = [memories |-> <<>>, writes |-> 0]
  /\ via = Absent /\ uart = Absent /\ ring = Absent /\ alu = Absent /\ asm = Absent
  /\ obs = BusObservation("new", 0, 0, 0)

BusAdd(start, size) ==
  /\ Len(bus.memories) < MaxRegions
  /\ bus' = [bus EXCEPT !.memories =
               add_memory(@, start, size, marked_ram(Len(bus.memories) + 1))]
  /\ obs' = BusObservation("add_memory", start, size, 0)
  /\ UNCHANGED cpu_vars
  /\ UNCHANGED <<via, uart, ring, alu, asm>>

BusRead(address) ==
  /\ obs' = BusObservation("read", address, 0, MappedMemory_read_u8(bus.memories, address))
  /\ UNCHANGED bus
  /\ UNCHANGED cpu_vars
  /\ UNCHANGED <<via, uart, ring, alu, asm>>

BusWrite(address, value) ==
  /\ bus.writes < MaxBusWrites
  /\ bus' = [bus EXCEPT !.memories = MappedMemory_write_u8(@, address, value),
                        !.writes = @ + 1]
  /\ obs' = BusObservation("write", address, value, 0)
  /\ UNCHANGED cpu_vars
  /\ UNCHANGED <<via, uart, ring, alu, asm>>

NextBus ==
  \/ \E range \in BusRanges : BusAdd(range[1], range[2])
  \/ \E address \in BusAddresses : BusRead(address)
  \/ \E address \in BusAddresses, value \in BusValues : BusWrite(address, value)

SpecBus == InitBus /\ [][NextBus]_vars

\* ------------------------------------------------------------------------
\* One arithmetic instruction with an immediate operand, run as the opcode
\* tests run it: the program is loaded, the CPU constructed, A and the
\* flags are set, and the instruction is stepped.
\* ------------------------------------------------------------------------
\* immediate-mode opcode bytes
AluOpcodes == [ADC |-> 105, SBC |-> 233, CMP |-> 201]

\* the operand bytes that are explored against every accumulator value
AluOperands == {0, 1, 15, 16, 63, 64, 127, 128, 129, 192, 254, 255}

STP_OPCODE == 219

\* Cpu::new on the program, then cpu.a = a0, cpu.p.set_carry(c), cpu.p.set_overflow(v)
AluStart(op, a0, m, c, v) ==
  LET prepared(st) ==
        [st EXCEPT !.a = a0, !.p = set_flag(set_flag(@, CARRY, c), OVERFLOW, v)]
  IN prepared(reset(Machine(0, 0, 0, 0, Status_default, 0,
                            image(<<AluOpcodes[op], m, STP_OPCODE>>, 0),
                            FALSE, FALSE, 0)))

\* the registers after one step_instruction with no interrupt signalled
AluRun(op, a0, m, c, v) ==
  Registers(step_instruction(AluStart(op, a0, m, c, v), Interrupt_none))

InitAlu ==
  /\ CpuAbsent
  /\ \E op \in DOMAIN AluOpcodes, a0 \in 0..255, m \in AluOperands, c \in BOOLEAN, v \in BOOLEAN :
       alu = [op |-> op, a |-> a0, m |-> m, carry |-> c, overflow |-> v,
              p |-> AluStart(op, a0, m, c, v).p, done |-> FALSE, out |-> Absent]
  /\ via = Absent /\ uart = Absent /\ ring = Absent /\ bus = Absent /\ asm = Absent
  /\ obs = Absent

AluExecute ==
  /\ ~alu.done
  /\ alu' = [alu EXCEPT !.done = TRUE,
                        !.out = AluRun(alu.op, alu.a, alu.m, alu.carry, alu.overflow)]
  /\ UNCHANGED cpu_vars
  /\ UNCHANGED <<via, uart, ring, bus, obs, asm>>

NextAlu == AluExecute

SpecAlu == InitAlu /\ [][NextAlu]_vars

\* ------------------------------------------------------------------------
\* ADC / SBC in decimal mode, run as the decimal opcode test runs them
\* (tests/opcode/sbc_decimal.rs): cpu.p.set_decimal_mode(true) after
\* construction, then the instruction is stepped.
\* ------------------------------------------------------------------------
\* packed BCD bytes: both nibbles are decimal digits
DecOperands == {16 * h + l : h \in 0..9, l \in 0..9}

DecStart(op, a0, m, c) ==
  LET decimal(st) == [st EXCEPT !.p = set_flag(@, DECIMAL_MODE, TRUE)]
  IN decimal(AluStart(op, a0, m, c, FALSE))

DecRun(op, a0, m, c) ==
  Registers(step_instruction(DecStart(op, a0, m, c), Interrupt_none))

InitDec ==
  /\ CpuAbsent
  /\ \E op \in {"ADC", "SBC"}, a0 \in 0..255, m \in DecOperands, c \in BOOLEAN :
       alu = [op |-> op, a |-> a0, m |-> m, carry |-> c, overflow |-> FALSE,
              p |-> DecStart(op, a0, m, c).p, done |-> FALSE, out |-> Absent]
  /\ via = Absent /\ uart = Absent /\ ring = Absent /\ bus = Absent /\ asm = Absent
  /\ obs = Absent

DecExecute ==
  /\ ~alu.done
  /\ alu' = [alu EXCEPT !.done = TRUE,
                        !.out = DecRun(alu.op, alu.a, alu.m, alu.carry)]
  /\ UNCHANGED cpu_vars
  /\ UNCHANGED <<via, uart, ring, bus, obs, asm>>

NextDec == DecExecute

SpecDec == InitDec /\ [][NextDec]_vars

\* ------------------------------------------------------------------------
\* One instruction of every opcode byte, run as the opcode tests run an
\* instruction (tests/opcode/*.rs): the program is placed in memory, the reset
\* vector points at it, the CPU is constructed, registers are set through the
\* public fields, and step_instruction is called.
\* ------------------------------------------------------------------------
MaxInsnCycle == 7

RTS_OPCODE == 96
RTI_OPCODE == 64
\* the two subroutines (one in ROM, one in RAM); each is a single RTS
ROM_ROUTINE == ROM_BASE + 8
RAM_ROUTINE == 512
InsnTargets == {ROM_ROUTINE, RAM_ROUTINE}
\* stack pointers set before the step: the wrap-around values and the reset value
InsnStackPointers == {0, 1, 253, 255}
\* status bytes set before the step: the reset value; decimal set with
\* irqb_disable clear; every flag set
InsnStatus == {52, 56, 255}
InsnXs == {128}

\* memory holding the instruction <<b, lo(t), hi(t)>> at ROM_BASE, an RTS at
\* both routines, an RTI as IRQ and as NMI handler, and the three vectors
insn_image(b, t) ==
  LET ram == force_write_all(new_ram(RAM_SIZE), RAM_ROUTINE, <<RTS_OPCODE>>)
      rom0 == force_write_all(new_rom(ROM_SIZE), 0, <<b, lo_byte(t), hi_byte(t)>>)
      rom1 == force_write_all(rom0, ROM_ROUTINE - ROM_BASE, <<RTS_OPCODE>>)
      rom2 == force_write_all(rom1, IRQ_HANDLER - ROM_BASE, <<RTI_OPCODE>>)
      rom3 == force_write_all(rom2, NMI_HANDLER - ROM_BASE, <<RTI_OPCODE>>)
      rom4 == force_write_u16(rom3, RESET_VECTOR - ROM_BASE, ROM_BASE)
      rom5 == force_write_u16(rom4, IRQ_VECTOR - ROM_BASE, IRQ_HANDLER)
      rom == force_write_u16(rom5, NMI_VECTOR - ROM_BASE, NMI_HANDLER)
  IN add_device(add_memory(add_memory(<<>>, 0, RAM_SIZE, ram), ROM_BASE, ROM_SIZE, rom),
                new_line_device)

\* Cpu::new(memory), then cpu.s, cpu.x and cpu.p assigned
InitInsn ==
  \E b \in 0..255, t \in InsnTargets, s0 \in InsnStackPointers, p0 \in InsnStatus, x0 \in InsnXs,
     oc \in BOOLEAN :
    LET constructed(before, r) ==
       /\ overflow_checks = oc
       /\ a = r.a
       /\ x = x0
       /\ y = r.y
       /\ s = s0
       /\ p = p0
       /\ pc = r.pc
       /\ memory = r.memory
       /\ run = r.run
       /\ wai = r.wai
       /\ cycle = r.cycle
       /\ panicked = FALSE
       /\ resets = 0
       /\ last = Observation("new", before, r)
       /\ via = Absent /\ uart = Absent /\ ring = Absent
       /\ bus = Absent /\ alu = Absent /\ asm = Absent /\ obs = Absent
        started(before) == constructed(before, reset(before))
    IN started(Machine(0, 0, 0, 0, Status_default, 0, insn_image(b, t),
                       FALSE, FALSE, 0))

\* one call of step_instruction; the interrupt lines are driven during the
\* first call only
InsnStep(lines) ==
  /\ ~panicked
  /\ cycle < MaxInsnCycle
  /\ (cycle = 0 \/ lines = Interrupt_none)
  /\ Commit("step", Current, step_instruction(Current, lines))
  /\ UNCHANGED <<overflow_checks, resets>>
  /\ UNCHANGED device_vars

NextInsn == \E lines \in InterruptSignals : InsnStep(lines)

SpecInsn == InitInsn /\ [][NextInsn]_vars

\* ------------------------------------------------------------------------
\* Assembler (assembler.rs)
\* ------------------------------------------------------------------------
\* Parameter: kind k is None, A, X, Y, Immediate, Absolute, Label, Indirect or
\* List; v is the number, the label, the boxed parameter or the parameters
Parameter(k, v) == [k |-> k, v |-> v]

\* Instruction; label "" is Option::None.  The list handed to the assembler
\* is held as runs: times is the number of consecutive copies of the
\* instruction in the list.
Instruction(label, mnemonic, parameter, times) ==
  [label |-> label, mnemonic |-> mnemonic, parameter |-> parameter, times |-> times]

\* Option<AssembledParameter>: kind None (no parameter), Label, U8 or U16;
\* v is the number of a U8 or U16, l the name of a Label
AssembledParameter(k, v) == [k |-> k, v |-> v, l |-> ""]
LabelParameter(l) == [k |-> "Label", v |-> 0, l |-> l]
NoParameter == AssembledParameter("None", 0)

\* the table entries of a mnemonic, in table order.  An entry without an
\* operand has the addressing mode None.
get_instructions(m) ==
  SelectSeq([i \in DOMAIN OPCODES |->
               [opcode |-> OPCODES[i][1], byte |-> OPCODES[i][2],
                parameter_1 |-> IF OPCODES[i][3] \in {"Implied", "Stack"}
                                THEN "None" ELSE OPCODES[i][3],
                parameter_2 |-> OPCODES[i][4]]],
            LAMBDA c : c.opcode = m)

\* bytes that follow the opcode byte for an addressing mode
mode_width(mode) ==
  CASE mode \in {"None", "Accumulator"} -> 0
    [] mode \in {"Absolute", "AbsoluteIndexedX", "AbsoluteIndexedY", "AbsoluteIndirect",
                 "AbsoluteIndexedIndirectX"} -> 2
    [] OTHER -> 1

\* InstructionMeta::width
width(meta) == 1 + mode_width(meta.parameter_1) + mode_width(meta.parameter_2)

\* Result of parse_parameters: Err(ParameterMismatch) or the two
\* (AddressingMode, Option<AssembledParameter>) pairs; a missing second pair
\* is (None, None), as AssembledInstruction::assemble unwraps it
Parsed(m1, p1, m2, p2) ==
  [ok |-> TRUE, mode_1 |-> m1, parameter_1 |-> p1, mode_2 |-> m2, parameter_2 |-> p2]
Mismatch ==
  [ok |-> FALSE, mode_1 |-> "None", parameter_1 |-> NoParameter,
   mode_2 |-> "None", parameter_2 |-> NoParameter]

\* the value of an Absolute or Label parameter in the addressing mode `mode`
address_parameter(mode, q) ==
  Parsed(mode, IF q.k = "Absolute" THEN AssembledParameter("U16", q.v)
               ELSE LabelParameter(q.v),
         "None", NoParameter)

parse_parameters(instruction) ==
  LET q == instruction.parameter
  IN CASE q.k = "None" -> Parsed("None", NoParameter, "None", NoParameter)
       [] q.k = "A" -> Parsed("Accumulator", NoParameter, "None", NoParameter)
       [] q.k = "Immediate" ->
            Parsed("Immediate", AssembledParameter("U8", q.v), "None", NoParameter)
       [] q.k = "Absolute" -> address_parameter("Absolute", q)
       [] q.k = "Label" ->
            Parsed("None", LabelParameter(q.v), "None", NoParameter)
       [] q.k = "Indirect" ->
            (CASE q.v.k = "Absolute" -> address_parameter("AbsoluteIndirect", q.v)
               [] /\ q.v.k = "List"
                  /\ Len(q.v.v) = 2
                  /\ q.v.v[1].k \in {"Absolute", "Label"}
                  /\ q.v.v[2].k = "X" ->
                    address_parameter("AbsoluteIndexedIndirectX", q.v.v[1])
               [] OTHER -> Mismatch)
       [] q.k = "List" /\ Len(q.v) = 2 ->
            (CASE q.v[1].k \in {"Absolute", "Label"} /\ q.v[2].k = "X" ->
                    address_parameter("AbsoluteIndexedX", q.v[1])
               [] q.v[1].k \in {"Absolute", "Label"} /\ q.v[2].k = "Y" ->
                    address_parameter("AbsoluteIndexedY", q.v[1])
               [] /\ q.v[1].k = "Indirect" /\ q.v[2].k = "Y"
                  /\ q.v[1].v.k = "Absolute" /\ q.v[1].v.v <= 255 ->
                    address_parameter("ZeroPageIndirectIndexedY", q.v[1].v)
               [] q.v[1].k = "Absolute" /\ q.v[2].k = "Label" ->
                    Parsed("Absolute", AssembledParameter("U16", q.v[1].v),
                           "ProgramCounterRelative", LabelParameter(q.v[2].v))
               [] OTHER -> Mismatch)
       [] OTHER -> Mismatch

\* the zero-page variant of an absolute addressing mode
ZeroPageOf ==
  [Absolute |-> "ZeroPage", AbsoluteIndexedX |-> "ZeroPageIndexedX",
   AbsoluteIndexedY |-> "ZeroPageIndexedY", AbsoluteIndirect |-> "ZeroPageIndirect",
   AbsoluteIndexedIndirectX |-> "ZeroPageIndexedIndirectX"]

\* zeropage optimizations (only for parameter_1)
\* (zp_optimize_any: the rewrite made without looking at the candidates)
zp_optimize_any(parsed, candidates) ==
  IF /\ parsed.parameter_1.k = "U16"
     /\ parsed.parameter_1.v <= 255
     /\ parsed.mode_1 \in DOMAIN ZeroPageOf
  THEN [parsed EXCEPT !.mode_1 = ZeroPageOf[@],
                      !.parameter_1 = AssembledParameter("U8", @.v)]
  ELSE parsed
zp_optimize(parsed, candidates) ==
  IF /\ parsed.parameter_1.k = "U16"
     /\ parsed.parameter_1.v <= 255
     /\ parsed.mode_1 \in DOMAIN ZeroPageOf
     /\ \E i \in DOMAIN candidates : candidates[i].parameter_1 = ZeroPageOf[parsed.mode_1]
  THEN [parsed EXCEPT !.mode_1 = ZeroPageOf[@],
                      !.parameter_1 = AssembledParameter("U8", @.v)]
  ELSE parsed

\* Result<AssembledInstruction, AssemblerError>
Assembled(meta, p1, p2) ==
  [err |-> "", instruction |-> meta, parameter_1 |-> p1, parameter_2 |-> p2]
Err(e) ==
  [err |-> e, instruction |-> NoInstruction, parameter_1 |-> NoParameter,
   parameter_2 |-> NoParameter]

\* special handling for labels: only works when there is one possible opcode
\* (select_labelled_first: the first candidate taken whatever their number)
select_labelled_first(parsed, candidates) ==
  Assembled(candidates[1], parsed.parameter_1, parsed.parameter_2)
select_labelled(parsed, candidates) ==
  IF Len(candidates) = 1
  THEN Assembled(candidates[1], parsed.parameter_1, parsed.parameter_2)
  ELSE Err("ParameterMismatch")

\* `for candidate in candidates`: the first candidate that is BRK given a
\* byte without a mode, or whose two addressing modes are the parsed ones
select_matching(parsed, candidates) ==
  LET fits(c) ==
        \/ /\ c.opcode = "BRK"
           /\ parsed.mode_1 = "None" /\ parsed.mode_2 = "None"
           /\ parsed.parameter_2.k = "None" /\ parsed.parameter_1.k = "U8"
        \/ c.parameter_1 = parsed.mode_1 /\ c.parameter_2 = parsed.mode_2
      hits == {i \in DOMAIN candidates : fits(candidates[i])}
  IN IF hits = {}
     THEN Err("ParameterMismatch")
     ELSE Assembled(candidates[CHOOSE i \in hits : \A j \in hits : i <= j],
                    parsed.parameter_1, parsed.parameter_2)

\* AssembledInstruction::assemble, Mnemonic::Opcode arm
AssembledInstruction_assemble(instruction) ==
  LET candidates == get_instructions(instruction.mnemonic)
      parsed == parse_parameters(instruction)
      selected(z) ==
        IF z.parameter_1.k = "Label" \/ z.parameter_2.k = "Label"
        THEN select_labelled(z, candidates)
        ELSE select_matching(z, candidates)
  IN IF ~parsed.ok
     THEN Err("ParameterMismatch")
     ELSE selected(zp_optimize(parsed, candidates))

\* Result<(), AssemblerError> of fill_label, with the parameter as it is left
Filled(e, parameter) == [err |-> e, parameter |-> parameter]

\* (d as i8).wrapping_neg() as u8
wrapping_neg_u8(d) == U8(256 - as_i8(U8(d)))

\* (fill_label_from_opcode: the displacement counted from the opcode byte)
fill_label_from_opcode(parameter, addressing_mode, address, labels) ==
  IF parameter.k # "Label"
  THEN Filled("", parameter)
  ELSE IF parameter.l \notin DOMAIN labels
  THEN Filled("UnknownLabel", parameter)
  ELSE CASE addressing_mode = "ProgramCounterRelative" ->
              (IF labels[parameter.l] < address - 2
               THEN IF address - 2 - labels[parameter.l] <= 128
                    THEN Filled("", AssembledParameter("U8",
                                      wrapping_neg_u8(address - 2 - labels[parameter.l])))
                    ELSE Filled("JumpTooFar", parameter)
               ELSE IF labels[parameter.l] - (address - 2) <= 127
                    THEN Filled("", AssembledParameter("U8", labels[parameter.l] - (address - 2)))
                    ELSE Filled("JumpTooFar", parameter))
         [] addressing_mode \in DOMAIN ZeroPageOf ->
              Filled("", AssembledParameter("U16", labels[parameter.l]))
         [] OTHER -> Filled("ParameterMismatch", parameter)
fill_label(parameter, addressing_mode, address, labels) ==
  IF parameter.k # "Label"
  THEN Filled("", parameter)
  ELSE IF parameter.l \notin DOMAIN labels
  THEN Filled("UnknownLabel", parameter)
  ELSE CASE addressing_mode = "ProgramCounterRelative" ->
              (IF labels[parameter.l] < address
               THEN IF address - labels[parameter.l] <= 128
                    THEN Filled("", AssembledParameter("U8",
                                      wrapping_neg_u8(address - labels[parameter.l])))
                    ELSE Filled("JumpTooFar", parameter)
               ELSE IF labels[parameter.l] - address <= 127
                    THEN Filled("", AssembledParameter("U8", labels[parameter.l] - address))
                    ELSE Filled("JumpTooFar", parameter))
         [] addressing_mode \in DOMAIN ZeroPageOf ->
              Filled("", AssembledParameter("U16", labels[parameter.l]))
         [] OTHER -> Filled("ParameterMismatch", parameter)

\* fill_labels: parameter_1, then parameter_2; the first error returns
fill_labels(assembled, address, labels) ==
  LET second(one) ==
        LET both(two) ==
              [assembled EXCEPT !.err = two.err, !.parameter_1 = one.parameter,
                                !.parameter_2 = two.parameter]
        IN IF one.err # ""
           THEN [assembled EXCEPT !.err = one.err]
           ELSE both(fill_label(assembled.parameter_2, assembled.instruction.parameter_2,
                                address, labels))
  IN second(fill_label(assembled.parameter_1, assembled.instruction.parameter_1,
                       address, labels))

\* the bytes Assembly::write emits for one assembled instruction;
\* a Label left in place is unreachable!()
parameter_bytes(parameter) ==
  CASE parameter.k = "U8" -> <<parameter.v>>
    [] parameter.k = "U16" -> <<lo_byte(parameter.v), hi_byte(parameter.v)>>
    [] OTHER -> <<>>

instruction_bytes(assembled) ==
  <<assembled.instruction.byte>> \o parameter_bytes(assembled.parameter_1)
                                 \o parameter_bytes(assembled.parameter_2)

\* ------------------------------------------------------------------------
\* Assembly: instructions, labels, assembled_instructions, and the position
\* of assemble() in its loops.  Lists are sequences of runs (element, times);
\* position (i, k) is copy k of run i.  out is the writer; result is "" while
\* assemble() is at work, then "Ok" or the AssemblerError.
\* ------------------------------------------------------------------------
\* Vec::push on a list of runs
push_run(runs, e) ==
  IF Len(runs) > 0 /\ runs[Len(runs)].e = e
  THEN [runs EXCEPT ![Len(runs)].times = @ + 1]
  ELSE Append(runs, [e |-> e, times |-> 1])

\* the position after (i, k) in a list whose run i has `times` copies
advance(st, times) ==
  IF st.k < times THEN [st EXCEPT !.k = @ + 1] ELSE [st EXCEPT !.i = @ + 1, !.k = 1]

\* assignment to copy k of run i
replace_copy(runs, i, k, e) ==
  SubSeq(runs, 1, i - 1)
    \o (IF k > 1 THEN <<[e |-> runs[i].e, times |-> k - 1]>> ELSE <<>>)
    \o <<[e |-> e, times |-> 1]>>
    \o (IF k < runs[i].times THEN <<[e |-> runs[i].e, times |-> runs[i].times - k]>> ELSE <<>>)
    \o SubSeq(runs, i + 1, Len(runs))

\* Assembly::from_instructions
from_instructions(instructions) ==
  [instructions |-> instructions, labels |-> <<>>, assembled_instructions |-> <<>>,
   pass |-> "pass 1", i |-> 1, k |-> 1, address |-> 0, out |-> <<>>, result |-> ""]

\* `return Err(e)` / `?`
fail(st, e) == [st EXCEPT !.result = e, !.pass = "returned"]

\* HashMap::insert
insert(labels, label, address) ==
  [l \in (DOMAIN labels) \cup {label} |-> IF l = label THEN address ELSE labels[l]]

\* pass 1: find opcodes and offsets, collect params (one instruction)
pass_1(st) ==
  IF st.i > Len(st.instructions)
  THEN [st EXCEPT !.pass = "pass 2", !.i = 1, !.k = 1, !.address = 0]
  ELSE LET instruction == st.instructions[st.i]
           chosen(labelled, assembled) ==
             IF assembled.err # ""
             THEN fail(labelled, assembled.err)
             ELSE IF st.address + width(assembled.instruction) > 65535
             THEN fail(labelled, "AddressOverflow")
             ELSE advance([labelled EXCEPT
                             !.address = @ + width(assembled.instruction),
                             !.assembled_instructions = push_run(@, assembled)],
                          instruction.times)
       IN IF instruction.label = ""
          THEN chosen(st, AssembledInstruction_assemble(instruction))
          ELSE IF instruction.label \in DOMAIN st.labels
          THEN fail([st EXCEPT !.labels = insert(@, instruction.label, st.address)],
                    "DoubleLabel")
          ELSE chosen([st EXCEPT !.labels = insert(@, instruction.label, st.address)],
                      AssembledInstruction_assemble(instruction))

\* pass 2: labels (one instruction)
\* (pass_2_emitting: an assembler that writes each instruction as it is resolved)
pass_2_emitting(st) ==
  IF st.i > Len(st.assembled_instructions)
  THEN [st EXCEPT !.pass = "returned", !.result = "Ok"]
  ELSE LET entry == st.assembled_instructions[st.i]
           filled(f) ==
             IF f.err # ""
             THEN fail(st, f.err)
             ELSE advance([st EXCEPT !.address = @ + width(entry.e.instruction),
                                     !.out = @ \o instruction_bytes(f)],
                          entry.times)
       IN filled(fill_labels(entry.e, st.address + width(entry.e.instruction), st.labels))
pass_2(st) ==
  IF st.i > Len(st.assembled_instructions)
  THEN [st EXCEPT !.pass = "write", !.i = 1, !.k = 1]
  ELSE LET entry == st.assembled_instructions[st.i]
           filled(f) ==
             IF f.err # ""
             THEN fail(st, f.err)
             ELSE IF f.parameter_1.k = entry.e.parameter_1.k
                     /\ f.parameter_2.k = entry.e.parameter_2.k
             THEN advance([st EXCEPT !.address = @ + width(entry.e.instruction)], entry.times)
             ELSE [st EXCEPT !.address = @ + width(entry.e.instruction),
                             !.assembled_instructions = replace_copy(@, st.i, st.k, f),
                             !.i = IF st.k > 1 THEN st.i + 2 ELSE st.i + 1,
                             !.k = 1]
       IN filled(fill_labels(entry.e, st.address + width(entry.e.instruction), st.labels))

\* Assembly::write (one instruction), and the return of assemble()
write(st) ==
  IF st.i > Len(st.assembled_instructions)
  THEN [st EXCEPT !.pass = "returned", !.result = "Ok"]
  ELSE advance([st EXCEPT !.out = @ \o instruction_bytes(st.assembled_instructions[st.i].e)],
               st.assembled_instructions[st.i].times)

\* disassemble: the loop is commented out, the empty list is returned
disassemble(r) == <<>>

\* ------------------------------------------------------------------------
\* The assembler at work, as tests/assembler.rs drives it: a list of
\* instructions is assembled into a Vec<u8>; the bytes are then disassembled,
\* and a program with a branch is loaded at address 0 and run up to and
\* including the branch.
\* ------------------------------------------------------------------------
\* copies of `JMP $1234` whose total width passes 0xFFFF
LongRun == 21846
\* instructions between a branch and its target
ForwardGaps == {0, 1, 127, 128}
BackwardGaps == {0, 124, 125, 126}
\* operand values on both sides of the zero-page limit
AsmValues == {0, 255, 256, 4660}
\* the zero-page operand of a BBRn/BBSn, and one that is not a zero-page address
BitAddresses == {240, 4660}
AbsoluteForms == {"a", "a,x", "a,y", "(a)", "(a,x)"}
LabelForms == {"l", "l,x", "l,y", "(l)", "(l,x)", "a,l", "(l),y"}
PlainForms == {"", "A", "#", "x,y", "(a),y"}
AsmMnemonics == {OPCODES[i][1] : i \in DOMAIN OPCODES}
AsmBranches == BranchMnemonics \cup {"BBR0", "BBS0", "BBR7", "BBS7"}

\* the Parameter written in a form, on the number v or the label l
operand(form, v, l) ==
  CASE form = "" -> Parameter("None", 0)
    [] form = "A" -> Parameter("A", 0)
    [] form = "#" -> Parameter("Immediate", v % 256)
    [] form = "a" -> Parameter("Absolute", v)
    [] form = "a,x" -> Parameter("List", <<Parameter("Absolute", v), Parameter("X", 0)>>)
    [] form = "a,y" -> Parameter("List", <<Parameter("Absolute", v), Parameter("Y", 0)>>)
    [] form = "(a)" -> Parameter("Indirect", Parameter("Absolute", v))
    [] form = "(a,x)" ->
         Parameter("Indirect",
                   Parameter("List", <<Parameter("Absolute", v), Parameter("X", 0)>>))
    [] form = "(a),y" ->
         Parameter("List", <<Parameter("Indirect", Parameter("Absolute", v)),
                             Parameter("Y", 0)>>)
    [] form = "x,y" -> Parameter("List", <<Parameter("X", 0), Parameter("Y", 0)>>)
    [] form = "l" -> Parameter("Label", l)
    [] form = "l,x" -> Parameter("List", <<Parameter("Label", l), Parameter("X", 0)>>)
    [] form = "l,y" -> Parameter("List", <<Parameter("Label", l), Parameter("Y", 0)>>)
    [] form = "(l)" -> Parameter("Indirect", Parameter("Label", l))
    [] form = "(l,x)" ->
         Parameter("Indirect",
                   Parameter("List", <<Parameter("Label", l), Parameter("X", 0)>>))
    [] form = "(l),y" ->
         Parameter("List", <<Parameter("Indirect", Parameter("Label", l)),
                             Parameter("Y", 0)>>)
    [] form = "a,l" -> Parameter("List", <<Parameter("Absolute", v), Parameter("Label", l)>>)

\* the operand of a branch to label l: the label, or the zero-page address
\* and the label for BBRn/BBSn
branch_operand(m, v, l) ==
  IF m \in BitBranchMnemonics THEN operand("a,l", v, l) ELSE operand("l", v, l)

NopRun(label, n) == Instruction(label, "NOP", Parameter("None", 0), n)

\* `n` NOPs; with gap 0 there is no such instruction in the list
Gap(n) == IF n = 0 THEN <<>> ELSE <<NopRun("", n)>>

\* the branch first, its target n instructions further on
forward(m, v, n) ==
  <<Instruction("", m, branch_operand(m, v, "target"), 1)>> \o Gap(n)
    \o <<NopRun("target", 1)>>

\* the target first, the branch n instructions after it
backward(m, v, n) ==
  <<NopRun("target", 1)>> \o Gap(n)
    \o <<Instruction("", m, branch_operand(m, v, "target"), 1)>>

\* what the instruction list was made of
Input(family, m, form, v, n) == [family |-> family, m |-> m, form |-> form, v |-> v, n |-> n]

\* the Assembly of a list, nothing assembled yet; no listing, no CPU
AsmStart(input, instructions) ==
  LET new(st) ==
        [instructions |-> st.instructions, labels |-> st.labels,
         assembled_instructions |-> st.assembled_instructions, pass |-> st.pass,
         i |-> st.i, k |-> st.k, address |-> st.address, out |-> st.out,
         result |-> st.result, input |-> input,
         disassembled |-> FALSE, listing |-> <<>>,
         loaded |-> FALSE, high |-> FALSE, branched |-> FALSE]
  IN /\ CpuAbsent
     /\ via = Absent /\ uart = Absent /\ ring = Absent /\ bus = Absent /\ alu = Absent
     /\ obs = Absent
     /\ asm = new(from_instructions(instructions))

InitAsm ==
  \/ AsmStart(Input("empty", "", "", 0, 0), <<>>)
  \/ \E m \in AsmMnemonics, form \in AbsoluteForms, v \in AsmValues :
       AsmStart(Input("absolute", m, form, v, 0),
                <<Instruction("", m, operand(form, v, ""), 1)>>)
  \/ \E m \in AsmMnemonics, form \in LabelForms :
       AsmStart(Input("labelled", m, form, 0, 0),
                <<Instruction("here", m, operand(form, 0, "here"), 1)>>)
  \/ \E m \in AsmMnemonics, form \in PlainForms :
       AsmStart(Input("plain", m, form, 18, 0),
                <<NopRun("", 1), Instruction("", m, operand(form, 18, ""), 1)>>)
  \/ \E m \in AsmBranches, v \in BitAddresses, n \in ForwardGaps :
       AsmStart(Input("forward", m, "", v, n), forward(m, v, n))
  \/ \E m \in AsmBranches, v \in BitAddresses, n \in BackwardGaps :
       AsmStart(Input("backward", m, "", v, n), backward(m, v, n))
  \/ \E m \in AsmBranches :
       AsmStart(Input("unbound", m, "", 0, 0),
                <<NopRun("", 1), Instruction("", m, branch_operand(m, 0, "nowhere"), 1)>>)
  \/ AsmStart(Input("twice", "NOP", "", 0, 0), <<NopRun("", 1), NopRun("l", 1), NopRun("l", 1)>>)
  \/ AsmStart(Input("long", "JMP", "a", 4660, LongRun),
              <<Instruction("", "JMP", operand("a", 4660, ""), LongRun)>>)

\* one turn of the loop of pass 1, of pass 2, or of write
AsmPass1 ==
  /\ asm.pass = "pass 1"
  /\ asm' = pass_1(asm)
  /\ UNCHANGED <<cpu_vars, via, uart, ring, bus, alu, obs>>

AsmPass2 ==
  /\ asm.pass = "pass 2"
  /\ asm' = pass_2(asm)
  /\ UNCHANGED <<cpu_vars, via, uart, ring, bus, alu, obs>>

AsmWrite ==
  /\ asm.pass = "write"
  /\ asm' = write(asm)
  /\ UNCHANGED <<cpu_vars, via, uart, ring, bus, alu, obs>>

\* disassemble(&out) after assemble returned Ok
AsmDisassemble ==
  /\ asm.result = "Ok"
  /\ ~asm.disassembled
  /\ asm' = [asm EXCEPT !.disassembled = TRUE, !.listing = disassemble(asm.out)]
  /\ UNCHANGED <<cpu_vars, via, uart, ring, bus, alu, obs>>

\* the address pass 1 gave the first instruction that has a label operand
RECURSIVE branch_address(_, _, _)
branch_address(runs, i, address) ==
  IF i > Len(runs) \/ runs[i].e.instruction.parameter_2 = "ProgramCounterRelative"
                   \/ runs[i].e.instruction.parameter_1 = "ProgramCounterRelative"
  THEN address
  ELSE branch_address(runs, i + 1,
                      address + runs[i].times * width(runs[i].e.instruction))

BranchAddress == branch_address(asm.assembled_instructions, 1, 0)

\* memory with the assembled bytes at address 0 and the byte at the
\* zero-page operand of a BBRn/BBSn
program_image(out, bits) ==
  LET ram == force_write_all(force_write_all(new_ram(RAM_SIZE), 0, out), 240, <<bits>>)
  IN add_device(add_memory(add_memory(<<>>, 0, RAM_SIZE, ram),
                           ROM_BASE, ROM_SIZE, new_rom(ROM_SIZE)),
                new_line_device)

\* Cpu::new on that memory (the reset vector reads 0); every flag, and every
\* bit of the tested byte, is then set (high) or cleared
AsmLoad(high, oc) ==
  /\ asm.result = "Ok"
  /\ asm.input.family \in {"forward", "backward"}
  /\ ~asm.loaded
  /\ LET constructed(before, r) ==
           Commit("new", before, [r EXCEPT !.p = IF high THEN 255 ELSE 48])
         started(before) == constructed(before, reset(before))
     IN started(Machine(0, 0, 0, 0, Status_default, 0,
                        program_image(asm.out, IF high THEN 255 ELSE 0),
                        FALSE, FALSE, 0))
  /\ overflow_checks' = oc
  /\ resets' = 0
  /\ asm' = [asm EXCEPT !.loaded = TRUE, !.high = high]
  /\ UNCHANGED <<via, uart, ring, bus, alu, obs>>

\* step_instruction, until the branch has been executed
AsmStep ==
  /\ asm.loaded
  /\ ~asm.branched
  /\ ~panicked
  /\ Commit("step", Current, step_instruction(Current, Interrupt_none))
  /\ asm' = [asm EXCEPT !.branched = (pc = BranchAddress)]
  /\ UNCHANGED <<overflow_checks, resets>>
  /\ UNCHANGED <<via, uart, ring, bus, alu, obs>>

NextAsm ==
  \/ AsmPass1
  \/ AsmPass2
  \/ AsmWrite
  \/ AsmDisassemble
  \/ \E high \in BOOLEAN, oc \in BOOLEAN : AsmLoad(high, oc)
  \/ AsmStep

SpecAsm == InitAsm /\ [][NextAsm]_vars

\* ------------------------------------------------------------------------
\* One instruction at a chosen place with chosen operand bytes, registers
\* and data, run as the opcode tests run it (tests/opcode/*.rs): a RAM of
\* 0x10000 bytes holds the program and the reset vector, the CPU is
\* constructed, registers are assigned, and the instruction is stepped.
\* ------------------------------------------------------------------------
\* the opcode bytes of the table entries of mnemonics ms in modes modes
OpcodeBytes(ms, modes) ==
  {OPCODES[i][2] : i \in {j \in DOMAIN OPCODES : OPCODES[j][1] \in ms /\ OPCODES[j][3] \in modes}}

RmwMnemonics == {"INC", "DEC", "ASL", "LSR", "ROL", "ROR", "STZ"}
\* base addresses and index values on both sides of a page boundary
RmwBases == {512, 640, 767}
RmwIndexes == {0, 1, 128, 255}

\* where a branch is placed: start and end of a page, end of memory
BranchPlaces == {0, 768, 1008, 1021, 65520}
BranchOffsets == {0, 1, 13, 14, 15, 127, 128, 240, 253, 254, 255}
BranchStatus == {48, 255}

IndirectModes == {"ZeroPageIndirect", "ZeroPageIndexedIndirectX", "ZeroPageIndirectIndexedY"}
IndirectOperands == {16, 254, 255}
IndirectIndexes == {0, 1, 255}
\* zero page data: the pointers at 0x10, 0xFE, 0xFF (high byte at 0x00) and
\* around them, and a different byte at 0x0100
IndirectData ==
  <<<<0, 18>>, <<1, 19>>, <<15, 33>>, <<16, 52>>, <<17, 3>>, <<253, 68>>, <<254, 255>>,
    <<255, 85>>, <<256, 102>>>>

BitAccumulators == {0, 1, 64, 128, 255}
BitOperands == {0, 1, 64, 128, 192, 255}
BitStatus == {48, 240, 255}

\* Contiguous::new_ram(0x10000) with the data bytes, the program at `place`
\* and the reset vector pointing there
RECURSIVE write_data(_, _)
write_data(r, data) ==
  IF data = <<>> THEN r
  ELSE write_data(force_write_all(r, data[1][1], <<data[1][2]>>), Tail(data))

op_image(place, program, data) ==
  LET ram == force_write_u16(force_write_all(write_data(new_ram(65536), data), place, program),
                             RESET_VECTOR, place)
  IN add_memory(<<>>, 0, 65536, ram)

\* what was set up: the family of the case, the place and bytes of the
\* instruction, the registers assigned, the byte the instruction works on
Setup(family, place, program, a0, x0, y0, p0, m) ==
  [family |-> family, place |-> place, program |-> program,
   a |-> a0, x |-> x0, y |-> y0, p |-> p0, m |-> m]

\* Cpu::new(memory), then cpu.a, cpu.x, cpu.y and cpu.p assigned
OpStart(setup, data, oc) ==
  LET constructed(before, r) ==
       /\ overflow_checks = oc
       /\ a = setup.a
       /\ x = setup.x
       /\ y = setup.y
       /\ s = r.s
       /\ p = setup.p
       /\ pc = r.pc
       /\ memory = r.memory
       /\ run = r.run
       /\ wai = r.wai
       /\ cycle = r.cycle
       /\ panicked = FALSE
       /\ resets = 0
       /\ last = Observation("new", before, r)
       /\ via = Absent /\ uart = Absent /\ ring = Absent
       /\ bus = Absent /\ alu = Absent /\ asm = Absent
       /\ obs = setup
      started(before) == constructed(before, reset(before))
  IN started(Machine(0, 0, 0, 0, Status_default, 0,
                     op_image(setup.place, setup.program, data), FALSE, FALSE, 0))

InitOp ==
  \E oc \in BOOLEAN :
    \/ \E b \in OpcodeBytes(RmwMnemonics, {"AbsoluteIndexedX"}),
          base \in RmwBases, x0 \in RmwIndexes :
         OpStart(Setup("rmw", 1024, <<b, lo_byte(base), hi_byte(base)>>, 0, x0, 0, 48, 129),
                 <<<<U16(base + x0), 129>>>>, oc)
    \/ \E b \in OpcodeBytes(BranchMnemonics, {"ProgramCounterRelative"}),
          place \in BranchPlaces, d \in BranchOffsets, p0 \in BranchStatus :
         OpStart(Setup("branch", place, <<b, d>>, 0, 0, 0, p0, 0), <<>>, oc)
    \/ \E b \in OpcodeBytes({"LDA", "STA"}, IndirectModes),
          q \in IndirectOperands, x0 \in IndirectIndexes, y0 \in IndirectIndexes :
         OpStart(Setup("indirect", 1024, <<b, q>>, 170, x0, y0, 48, 0), IndirectData, oc)
    \/ \E b \in OpcodeBytes({"BIT"}, {"Immediate", "ZeroPage", "ZeroPageIndexedX", "Absolute",
                                      "AbsoluteIndexedX"}),
          a0 \in BitAccumulators, m \in BitOperands, p0 \in BitStatus :
         OpStart(Setup("bit", 1024, <<b, IF get_instruction(b).parameter_1 = "Immediate"
                                         THEN m ELSE 32, 0>>, a0, 0, 0, p0, m),
                 <<<<32, m>>>>, oc)

\* the one call of step_instruction
OpStep ==
  /\ last.call = "new"
  /\ Commit("step", Current, step_instruction(Current, Interrupt_none))
  /\ UNCHANGED <<overflow_checks, resets>>
  /\ UNCHANGED device_vars

NextOp == OpStep

SpecOp == InitOp /\ [][NextOp]_vars

\* ------------------------------------------------------------------------
\* The keyboard matrix: a Via whose port A is scanned while keys are
\* reported with KeyState::set_pressed
\* ------------------------------------------------------------------------
\* KeyState::set_pressed(code, pressed)
set_pressed(state, code, pressed) ==
  LET bit == (code % 5) + 3
      index == code \div 5
      mask == 2 ^ bit
  IN [state EXCEPT ![index] = IF pressed THEN BitAnd(@, BitNot8(mask)) ELSE BitOr(@, mask)]

\* the key codes reported: first and last of a column, a middle one, the
\* last of the matrix (CodyKeyCode 0..39)
KeyCodes == {0, 4, 7, 39}
\* the bytes written to IORA: the eight columns and bytes with higher bits
KeyColumns == {0, 1, 2, 3, 4, 5, 6, 7, 15, 248}

\* what the last call was, what a read returned, and for each key the
\* `pressed` of the most recent set_pressed call for it ("never": no call)
KeysObservation(call, value, ret, reported) ==
  [call |-> call, value |-> value, ret |-> ret, reported |-> reported]

InitKeys ==
  /\ CpuAbsent
  /\ via = Via_default
  /\ uart = Absent /\ ring = Absent /\ bus = Absent /\ alu = Absent /\ asm = Absent
  /\ obs = KeysObservation("new", 0, 0, [k \in KeyCodes |-> "never"])

KeysFrame == UNCHANGED cpu_vars /\ UNCHANGED <<uart, ring, bus, alu, asm>>

\* DDRA = 7, or the reset value 0
KeysDirection(value) ==
  /\ ~via.panicked
  /\ via' = Via_write_u8(via, VIA_DDRA, value)
  /\ obs' = KeysObservation("ddra", value, 0, obs.reported)
  /\ KeysFrame

KeysSelect(value) ==
  /\ ~via.panicked
  /\ via' = Via_write_u8(via, VIA_IORA, value)
  /\ obs' = KeysObservation("select", value, 0, obs.reported)
  /\ KeysFrame

KeysSetPressed(code, pressed) ==
  /\ ~via.panicked
  /\ via' = [via EXCEPT !.key_state = set_pressed(@, code, pressed)]
  /\ obs' = KeysObservation("set_pressed", code, 0,
                            [obs.reported EXCEPT ![code] = IF pressed THEN "pressed"
                                                           ELSE "released"])
  /\ KeysFrame

KeysScan ==
  /\ ~via.panicked
  /\ LET answered(r) ==
           /\ via' = r.via
           /\ obs' = KeysObservation(IF r.via.panicked THEN "panic" ELSE "scan",
                                     BitAnd(via.registers[VIA_IORA], 7), r.v, obs.reported)
     IN answered(Via_read_u8(via, VIA_IORA))
  /\ KeysFrame

NextKeys ==
  \/ \E value \in {0, 7} : KeysDirection(value)
  \/ \E value \in KeyColumns : KeysSelect(value)
  \/ \E code \in KeyCodes, pressed \in BOOLEAN : KeysSetPressed(code, pressed)
  \/ KeysScan

SpecKeys == InitKeys /\ [][NextKeys]_vars

\* ------------------------------------------------------------------------
\* The CPU on the bus of frontend.rs with the Via at 0x9F00: programs that
\* arm Timer 1 and wait for it or take its interrupt
\* ------------------------------------------------------------------------
VIA_BASE == 40704
VIA_SIZE == 256
PROPELLER_BASE == 40960
PROPELLER_SIZE == 16384
\* SysStep is explored while the cycle counter is below MaxSysCycle
MaxSysCycle == 48

\* LDA #v; STA address
poke(address, v) == <<169, v, 141, lo_byte(address), hi_byte(address)>>

\* IER := 0xC0 (Timer 1 enabled), T1CL := n, T1CH := 0 (the timer starts)
ArmTimer1(n) ==
  poke(VIA_BASE + VIA_IER, 192) \o poke(VIA_BASE + VIA_T1CL, n) \o poke(VIA_BASE + VIA_T1CH, 0)

\* Timer 1 values: expired before WAI is executed, expiring in the cycles of
\* WAI, and later
TimerValues == {3, 6, 8, 20}

\* arm the timer, then WAI; STP - or CLI; NOP; NOP; STP
SysPrograms ==
  {ArmTimer1(n) \o <<203, 219>> : n \in TimerValues}
    \cup {ArmTimer1(n) \o <<88, 234, 234, 219>> : n \in {3, 8}}
    \cup {ArmTimer1(n) \o <<88, 203, 219>> : n \in {20}}

\* IRQ handlers: one that returns without touching the Via, one that reads
\* T1CL (clearing IFR bit 6), one that disables Timer 1 in IER
SysHandlers ==
  { <<64>>,
    <<173, lo_byte(VIA_BASE + VIA_T1CL), hi_byte(VIA_BASE + VIA_T1CL), 64>>,
    poke(VIA_BASE + VIA_IER, 64) \o <<64>> }

\* the program at the start of the ROM, the IRQ handler behind it
SysHandlerAt == ROM_BASE + 64

sys_image(program, irq_handler) ==
  LET rom0 == force_write_all(new_rom(ROM_SIZE), 0, program)
      rom1 == force_write_all(rom0, SysHandlerAt - ROM_BASE, irq_handler)
      rom2 == force_write_u16(rom1, RESET_VECTOR - ROM_BASE, ROM_BASE)
      rom == force_write_u16(rom2, IRQ_VECTOR - ROM_BASE, SysHandlerAt)
  IN add_memory(add_memory(add_memory(add_memory(<<>>, 0, RAM_SIZE, new_ram(RAM_SIZE)),
                                      PROPELLER_BASE, PROPELLER_SIZE, new_ram(PROPELLER_SIZE)),
                           ROM_BASE, ROM_SIZE, rom),
                VIA_BASE, VIA_SIZE, new_via(Via_default))

\* the Via of a bus
ViaOf(memories) ==
  memories[CHOOSE i \in DOMAIN memories : memories[i].mem.kind = "via"].mem.via

\* the observation of the calls made: `owed` the cycles returned by
\* step_instruction since the Via was last ticked, `due` what was owed at the
\* latest tick and `decremented` the iterations of the timer loop of that
\* tick (a negative number d standing for 2^64 + d), `ticked` whether the
\* latest call ticked the bus, `idle` whether it was spent waiting and
\* `after_idle` whether the call before it was, `sequences` the IRQ
\* sequences performed, `calls` the parity of the step_instruction calls made
SysObservation(owed, due, decremented, ticked, idle, after_idle, sequences, calls) ==
  [owed |-> owed, due |-> due, decremented |-> decremented, ticked |-> ticked,
   idle |-> idle, after_idle |-> after_idle, sequences |-> sequences, calls |-> calls]

InitSys ==
  \E program \in SysPrograms, irq_handler \in SysHandlers :
    LET constructed(before, r) ==
       /\ overflow_checks = FALSE
       /\ a = r.a
       /\ x = r.x
       /\ y = r.y
       /\ s = r.s
       /\ p = r.p
       /\ pc = r.pc
       /\ memory = r.memory
       /\ run = r.run
       /\ wai = r.wai
       /\ cycle = r.cycle
       /\ panicked = FALSE
       /\ resets = 0
       /\ last = Observation("new", before, r)
       /\ via = Absent /\ uart = Absent /\ ring = Absent
       /\ bus = Absent /\ alu = Absent /\ asm = Absent
       /\ obs = SysObservation(0, 0, 0, FALSE, FALSE, FALSE, 0, 0)
        started(before) == constructed(before, reset(before))
    IN started(Machine(0, 0, 0, 0, Status_default, 0, sys_image(program, irq_handler),
                       FALSE, FALSE, 0))

\* one call of step_instruction; the interrupt comes from the Via alone
SysStep ==
  /\ ~panicked
  /\ cycle < MaxSysCycle
  /\ LET stepped(r) ==
           /\ Commit("step", Current, r)
           /\ obs' = IF ~run
                     THEN [obs EXCEPT !.ticked = FALSE, !.idle = FALSE, !.after_idle = FALSE,
                                      !.calls = 1 - @]
                     ELSE SysObservation(IF r.panicked THEN obs.owed ELSE r.ret, obs.owed,
                                         cycles_elapsed(ViaOf(memory), cycle), TRUE,
                                         ~r.panicked /\ r.mid.wai, obs.idle,
                                         obs.sequences + (IF r.seq = "irq" THEN 1 ELSE 0),
                                         1 - obs.calls)
     IN stepped(step_instruction(Current, Interrupt_none))
  /\ UNCHANGED <<overflow_checks, resets>>
  /\ UNCHANGED <<via, uart, ring, bus, alu, asm>>

\* Cpu::reset on the CPU whose bus and devices are kept
SysReset ==
  /\ ~panicked
  /\ resets < MaxResets
  /\ resets' = resets + 1
  /\ Commit("reset", Current, reset(Current))
  /\ obs' = [obs EXCEPT !.ticked = FALSE, !.idle = FALSE, !.after_idle = FALSE]
  /\ UNCHANGED overflow_checks
  /\ UNCHANGED <<via, uart, ring, bus, alu, asm>>

NextSys == SysStep \/ SysReset

SpecSys == InitSys /\ [][NextSys]_vars

\* a call of step_instruction as the observation shows it: the parity of
\* the calls changes (the other fields are whatever the call leaves)
SysCalled ==
  /\ ~panicked
  /\ cycle < MaxSysCycle
  /\ obs' \in [owed : 0..MaxSysCycle, due : 0..MaxSysCycle,
               decremented : (0 - MaxSysCycle)..MaxSysCycle, ticked : BOOLEAN,
               idle : BOOLEAN, after_idle : BOOLEAN, sequences : 0..MaxSysCycle,
               calls : {1 - obs.calls}]

\* step_instruction is called again and again while it can be (the loop of
\* Cpu::run, on the CPU thread of the frontend); nothing schedules a reset
SpecSysFair == SpecSys /\ WF_obs(SysCalled)

\* ------------------------------------------------------------------------
\* Observations on the last call
\* ------------------------------------------------------------------------
\* the bus reads and writes of a call, in order
Accesses(o) == SelectSeq(o.log, LAMBDA e : e[1] # "tick")
\* the ticks region i received during a call
TicksOf(o, i) == SelectSeq(o.log, LAMBDA e : e[1] = "tick" /\ e[2] = i)
\* a step_instruction call that found the CPU running and returned
RunningStep(o) == o.call = "step" /\ o.pre.run
\* the call began with the interrupt sequence: its first bus access is a
\* stack write (a step without the sequence begins with the opcode fetch)
InterruptEntry(o) == Len(Accesses(o)) >= 1 /\ Accesses(o)[1][1] = "write"
\* the vector the sequence read
EntryVector(o) == Accesses(o)[4][2]
\* position of the opcode fetch among the accesses of a call
FetchIndex(o) == IF InterruptEntry(o) THEN 6 ELSE 1
Fetched(o) == o.fetched # -1

\* ------------------------------------------------------------------------
\* C1: at the interrupt sample of a step on a running CPU the interrupt
\* sequence is performed iff the tick signals nmi, or irq with irqb_disable
\* clear; never an IRQ sequence while irqb_disable is set; nmi together with
\* irq uses the NMI vector 0xFFFA.
\* ------------------------------------------------------------------------
C1_InterruptSample ==
  RunningStep(last) =>
    /\ InterruptEntry(last)
         <=> (last.nmi \/ (last.irq /\ ~flag(last.pre.p, IRQB_DISABLE)))
    /\ InterruptEntry(last) =>
         /\ EntryVector(last) \in {NMI_VECTOR, IRQ_VECTOR}
         /\ (EntryVector(last) = IRQ_VECTOR) => ~flag(last.pre.p, IRQB_DISABLE)
         /\ last.nmi => EntryVector(last) = NMI_VECTOR
         /\ ~last.nmi => EntryVector(last) = IRQ_VECTOR

C1_Witness ==
  /\ RunningStep(last)
  /\ last.nmi /\ last.irq
  /\ ~flag(last.pre.p, IRQB_DISABLE)
  /\ InterruptEntry(last)
  /\ EntryVector(last) = NMI_VECTOR

\* ------------------------------------------------------------------------
\* C2: an interrupt sequence entered with stack pointer S writes PC high at
\* 0x0100+S, PC low at 0x0100+((S-1) mod 256), the status byte at
\* 0x0100+((S-2) mod 256), leaves S-3 mod 256, irqb_disable set, decimal
\* clear, PC = the little-endian word at the vector, and the same step then
\* fetches and executes the instruction at that PC.
\* ------------------------------------------------------------------------
C2_InterruptSequence ==
  (RunningStep(last) /\ InterruptEntry(last)) =>
    LET acc == Accesses(last)
        S == last.pre.s
    IN /\ Len(acc) >= 6
       /\ acc[1] = <<"write", 256 + S, hi_byte(last.pre.pc)>>
       /\ acc[2] = <<"write", 256 + ((S - 1) % 256), lo_byte(last.pre.pc)>>
       /\ acc[3][1] = "write" /\ acc[3][2] = 256 + ((S - 2) % 256)
       /\ \A n \in {0, 1, 2, 3, 6, 7} : Bit(acc[3][3], n) = Bit(last.pre.p, n)
       /\ last.mid.s = (S - 3) % 256
       /\ flag(last.mid.p, IRQB_DISABLE)
       /\ ~flag(last.mid.p, DECIMAL_MODE)
       /\ acc[4][1] = "read" /\ acc[5] = <<"read", acc[4][2] + 1, acc[5][3]>>
       /\ acc[4][3] = MappedMemory_read_u8(memory, acc[4][2])
       /\ acc[5][3] = MappedMemory_read_u8(memory, acc[4][2] + 1)
       /\ last.mid.pc = acc[4][3] + 256 * acc[5][3]
       /\ acc[6] = <<"read", last.mid.pc, last.fetched>>
       /\ Fetched(last)
       /\ last.ret >= 1
       /\ cycle = last.pre.cycle + last.ret

\* the sequence entered with S = 1, so that the three writes wrap in the page
C2_Witness ==
  /\ RunningStep(last)
  /\ InterruptEntry(last)
  /\ last.pre.s = 1
  /\ last.mid.s = 254
  /\ Accesses(last)[3][2] = 511

\* ------------------------------------------------------------------------
\* C3: the status byte pushed by BRK and PHP has bits 4 and 5 set; the one
\* pushed by an IRQ or NMI sequence has bit 5 set and bit 4 clear.
\* ------------------------------------------------------------------------
C3_PushedStatus ==
  RunningStep(last) =>
    LET acc == Accesses(last)
        f == FetchIndex(last)
    IN /\ InterruptEntry(last) =>
            (Bit(acc[3][3], UNUSED) = 1 /\ Bit(acc[3][3], BRK_COMMAND) = 0)
       /\ (Fetched(last) /\ last.fetched = 0) =>
            (Bit(acc[f + 3][3], UNUSED) = 1 /\ Bit(acc[f + 3][3], BRK_COMMAND) = 1)
       /\ (Fetched(last) /\ last.fetched = 8) =>
            (Bit(acc[f + 1][3], UNUSED) = 1 /\ Bit(acc[f + 1][3], BRK_COMMAND) = 1)

\* ------------------------------------------------------------------------
\* C4: every step on a running CPU, idle WAI steps and undocumented opcodes
\* included, returns at least 1 and advances the cycle counter by exactly
\* the value returned.
\* ------------------------------------------------------------------------
C4_CyclesReturned ==
  RunningStep(last) => (last.ret >= 1 /\ cycle = last.pre.cycle + last.ret)

\* ------------------------------------------------------------------------
\* C5: in every step made while the CPU is running every region of the
\* mapped bus, size-0 devices included, receives exactly one tick, before
\* the opcode fetch and with the cycle value from before the instruction.
\* ------------------------------------------------------------------------
C5_OneTickPerRegion ==
  RunningStep(last) =>
    /\ \A i \in DOMAIN memory : TicksOf(last, i) = << <<"tick", i, last.pre.cycle>> >>
    /\ \A j, k \in DOMAIN last.log :
         (last.log[j][1] = "tick" /\ last.log[k][1] # "tick") => j < k

C5_Witness ==
  /\ RunningStep(last)
  /\ Fetched(last)
  /\ last.pre.cycle > 0
  /\ \E i \in DOMAIN memory :
       memory[i].size = 0 /\ TicksOf(last, i) = << <<"tick", i, last.pre.cycle>> >>

\* ------------------------------------------------------------------------
\* C6: while waiting after WAI, a step without irq and nmi fetches nothing
\* and leaves PC, A, X, Y, S, P and memory unchanged; the first step with irq
\* or nmi clears the waiting state; an irq masked by irqb_disable takes no
\* vector, pushes nothing and resumes with the instruction after the WAI.
\* ------------------------------------------------------------------------
WAI_OPCODE == 203

C6_WaitStep ==
  (wai /\ run /\ last'.call = "step") =>
    /\ (~last'.irq /\ ~last'.nmi) =>
         /\ Accesses(last') = <<>>
         /\ ~Fetched(last')
         /\ wai'
         /\ UNCHANGED <<pc, a, x, y, s, p, memory>>
    /\ (last'.irq \/ last'.nmi) => ~last'.mid.wai
    /\ (last'.irq /\ ~last'.nmi /\ flag(p, IRQB_DISABLE)) =>
         /\ ~InterruptEntry(last')
         /\ last'.mid.s = s /\ last'.mid.pc = pc /\ last'.mid.p = p
         /\ Accesses(last')[1] = <<"read", pc, last'.fetched>>
         /\ Fetched(last')

C6_Waiting ==
  /\ [](wai => MappedMemory_read_u8(memory, (pc - 1) % 65536) = WAI_OPCODE)
  /\ [][C6_WaitStep]_vars

\* a masked irq ended the wait and the step went on to fetch
C6_Witness ==
  /\ RunningStep(last)
  /\ last.pre.wai
  /\ last.irq /\ ~last.nmi
  /\ flag(last.pre.p, IRQB_DISABLE)
  /\ ~InterruptEntry(last)
  /\ Fetched(last)

\* ------------------------------------------------------------------------
\* C7: once STP has executed, every later step returns 0, performs no bus
\* tick and no memory access and leaves registers, memory and the cycle
\* counter unchanged, until reset is called.
\* ------------------------------------------------------------------------
C7_HaltedStep ==
  (~run /\ last'.call = "step") =>
    /\ last'.ret = 0
    /\ last'.log = <<>>
    /\ UNCHANGED <<a, x, y, s, p, pc, memory, run, wai, cycle>>

C7_Stopped == [][C7_HaltedStep]_vars

C7_Witness ==
  /\ last.call = "step"
  /\ ~last.pre.run
  /\ ~run
  /\ last.ret = 0

\* ------------------------------------------------------------------------
\* C8: reset from any state gives A=X=Y=0, S=0xFD, P=0x34, PC = the
\* little-endian word at 0xFFFC/0xFFFD, not waiting, running.
\* ------------------------------------------------------------------------
C8_Reset ==
  (last.call \in {"new", "reset"}) =>
    /\ a = 0 /\ x = 0 /\ y = 0
    /\ s = 253
    /\ p = 52
    /\ pc = MappedMemory_read_u8(memory, 65532) + 256 * MappedMemory_read_u8(memory, 65533)
    /\ ~wai
    /\ run

\* reset called on a CPU that was waiting in WAI
C8_Witness ==
  /\ last.call = "reset"
  /\ last.pre.wai
  /\ last.pre.run
  /\ ~wai

\* ------------------------------------------------------------------------
\* C9: nmi is edge-sensitive: when the tick reports nmi on consecutive steps
\* the NMI sequence is performed only on the first of them.
\* ------------------------------------------------------------------------
C9_NmiStep ==
  (RunningStep(last) /\ last.nmi /\ last'.call = "step" /\ run /\ last'.nmi) =>
    ~(InterruptEntry(last') /\ EntryVector(last') = NMI_VECTOR)

C9_NmiEdge == [][C9_NmiStep]_vars

\* ------------------------------------------------------------------------
\* C10: from reset on, after any sequence of steps (PLP and RTI popping
\* arbitrary bytes included) bits 4 and 5 of the live status register are 1.
\* ------------------------------------------------------------------------
C10_LiveBits == Bit(p, BRK_COMMAND) = 1 /\ Bit(p, UNUSED) = 1

\* PLP or RTI has just popped a byte whose bits 4 and 5 are clear
C10_Witness ==
  /\ RunningStep(last)
  /\ Fetched(last)
  /\ last.fetched \in {40, 64}
  /\ LET popped == Accesses(last)[FetchIndex(last) + 1]
     IN popped[1] = "read" /\ Bit(popped[3], BRK_COMMAND) = 0 /\ Bit(popped[3], UNUSED) = 0

\* ------------------------------------------------------------------------
\* Devices and arithmetic
\* ------------------------------------------------------------------------

\* C11: every call completes normally: no register read of the VIA (the
\* IORA read for any DDRA value in particular) unwinds with a failure.
C11_NoFailure == obs.call # "panic"

\* C13: after every VIA read, write and tick, IFR bit 7 is 1 iff
\* IFR AND IER AND 0x7F is non-zero, and a tick returns irq iff IFR bit 7 is 1.
C13_IfrSummary ==
  /\ (Bit(via.ifr, 7) = 1) <=> (BitAnd(BitAnd(via.ifr, via.ier), 127) # 0)
  /\ obs.call = "tick" => (is_irq(obs.ret) <=> Bit(via.ifr, 7) = 1)
  /\ obs.call = "tick" => ~is_nmi(obs.ret)

\* Timer 1 has raised an enabled interrupt and the tick reports it
C13_Witness ==
  /\ obs.call = "tick"
  /\ via.t1_watch.fired > 0
  /\ Bit(via.ifr, 6) = 1 /\ Bit(via.ier, 6) = 1
  /\ is_irq(obs.ret)

\* a tick in which Timer 1 raised IFR bit 6 leaves the bit set
C14_RaiseStep ==
  (via'.t1_watch.armed /\ via.t1_watch.armed
     /\ via'.t1_watch.fired > via.t1_watch.fired)
    => (obs'.call = "tick" /\ Bit(via'.ifr, 6) = 1)

\* the state a write of T1CH leaves, and the raises counted since
C14_Watched ==
  /\ (obs.call = "write" /\ obs.address = VIA_T1CH)
       => /\ Bit(via.ifr, 6) = 0
          /\ via.t1_counter = via.t1_latch_lo + 256 * via.t1_latch_hi
          /\ via.t1_watch.n = via.t1_counter
          /\ via.t1_watch.elapsed = 0 /\ via.t1_watch.fired = 0
  /\ (via.t1_watch.armed /\ via.t1_watch.n >= 1)
       => /\ \A i \in 1..Len(via.t1_watch.at) : via.t1_watch.at[i] = i * via.t1_watch.n
          /\ Len(via.t1_watch.at) = via.t1_watch.fired
          /\ via.t1_watch.fired =
               IF via.t1_watch.continuous
               THEN via.t1_watch.elapsed \div via.t1_watch.n
               ELSE IF via.t1_watch.elapsed >= via.t1_watch.n THEN 1 ELSE 0

\* C14: a write of T1CH with the latch at N clears IFR bit 6 and loads the
\* counter with N; IFR bit 6 is raised when exactly N cycles have been ticked,
\* once only in one-shot mode and after every further N cycles in continuous
\* mode.
C14_Timer1 == [](C14_Watched) /\ [][C14_RaiseStep]_vars

\* continuous mode has raised IFR bit 6 twice
C14_Witness ==
  /\ via.t1_watch.armed /\ via.t1_watch.continuous
  /\ via.t1_watch.n = 2 /\ via.t1_watch.fired = 2

\* one-shot mode has run past two periods
C14_WitnessOneShot ==
  /\ via.t1_watch.armed /\ ~via.t1_watch.continuous
  /\ via.t1_watch.n = 2 /\ via.t1_watch.elapsed >= 4

\* the regions of size > 0 whose range [start, start + size) holds address
Covering(memories, address) ==
  {i \in DOMAIN memories :
     /\ memories[i].size > 0
     /\ memories[i].start <= address
     /\ address < memories[i].start + memories[i].size}

\* the most recently added of them, 0 when there is none
Owner(memories, address) ==
  IF Covering(memories, address) = {} THEN 0
  ELSE CHOOSE i \in Covering(memories, address) :
         \A j \in Covering(memories, address) : j <= i

C12_Access ==
  /\ obs'.call = "read" =>
       /\ bus'.memories = bus.memories
       /\ obs'.ret =
            IF Owner(bus.memories, obs'.address) = 0 THEN 0
            ELSE Contiguous_read_u8(
                   bus.memories[Owner(bus.memories, obs'.address)].mem,
                   obs'.address - bus.memories[Owner(bus.memories, obs'.address)].start)
  /\ obs'.call = "write" =>
       bus'.memories =
         IF Owner(bus.memories, obs'.address) = 0 THEN bus.memories
         ELSE [bus.memories EXCEPT ![Owner(bus.memories, obs'.address)].mem =
                 Contiguous_write_u8(
                   @, obs'.address - bus.memories[Owner(bus.memories, obs'.address)].start,
                   obs'.value)]

\* C12: a read or write of the mapped bus is handled by the most recently
\* added region of size > 0 whose range holds the address, at the address
\* rebased to the region's start, and by no other region; without such a
\* region the read returns 0 and the write changes nothing.
C12_MostRecentRegion == [][C12_Access]_vars

\* a read that two regions cover, answered by the later one
C12_Witness ==
  /\ obs.call = "read"
  /\ \E i, j \in Covering(bus.memories, obs.address) :
       /\ i < j
       /\ j = Owner(bus.memories, obs.address)
       /\ bus.memories[i].start # bus.memories[j].start
       /\ obs.ret = marker(j, obs.address - bus.memories[j].start)
       /\ obs.ret # marker(i, obs.address - bus.memories[i].start)

\* a push is accepted iff fewer than 7 bytes are stored; a pop returns the
\* oldest stored byte, None when there is none
C15_Call ==
  /\ obs'.call = "push" =>
       /\ obs'.ret = (Len(obs.queue) < 7)
       /\ ~obs'.ret => ring' = ring
  /\ obs'.call = "pop" =>
       /\ obs'.ret = IF obs.queue = <<>> THEN None ELSE Some(Head(obs.queue))
       /\ ~obs'.ret.some => ring' = ring

\* the ring stores the queue, oldest byte at tail, and len counts it
C15_Stored ==
  /\ Len(obs.queue) <= 7
  /\ RingBuf_len(ring) = Len(obs.queue)
  /\ \A i \in 1..Len(obs.queue) :
       get(ring, ring.tail + i - 1) = obs.queue[i]

\* C15: under any sequence of push and pop calls RingBuf is a FIFO queue of
\* at most 7 bytes: push stores the byte and returns true iff fewer than 7
\* are stored, pop returns the oldest byte or None, a refused call leaves the
\* buffer unchanged, and len is the number of stored bytes.
C15_Fifo == [](C15_Stored) /\ [][C15_Call]_vars

\* a push refused by a full ring whose head has wrapped around
C15_Witness ==
  /\ obs.call = "push" /\ ~obs.ret
  /\ Len(obs.queue) = 7
  /\ ring.head < ring.tail

\* the bytes a ring stores, oldest first
Stored(r) == [i \in 1..RingBuf_len(r) |-> get(r, r.tail + i - 1)]

\* the bytes consumed followed by the bytes in the receive ring are the
\* bytes read from the source so far, in source order
C16_InOrder ==
  uart.enabled =>
    /\ uart.received \o Stored(uart.dev.receive_buffer)
         = SubSeq(uart.dev.source.source, 1, uart.dev.source.pos)
    /\ uart.taken.some =>
         /\ Stored(uart.dev.receive_buffer) # <<>>
         /\ uart.taken.value = Stored(uart.dev.receive_buffer)[1]

\* a tick fills the receive ring until it is full or the source is exhausted
C16_Fill ==
  (obs'.call = "tick" /\ uart'.enabled) =>
    \/ is_full(uart'.dev.receive_buffer)
    \/ uart'.dev.source.pos = Len(uart'.dev.source.source)

C17_AfterTick ==
  obs.call = "tick" =>
    /\ Uart_read_u8(uart.dev, UART_STAT)
         = IF Bit(Uart_read_u8(uart.dev, UART_CMND), 0) = 1 THEN 64 ELSE 0
    /\ Bit(Uart_read_u8(uart.dev, UART_CMND), 0) = 0 =>
         /\ Uart_read_u8(uart.dev, UART_RXHD) = 0
         /\ Uart_read_u8(uart.dev, UART_TXTL) = 0

\* a tick of the disabled UART leaves RXTL and TXHD alone
C17_DisabledTick ==
  (obs'.call = "tick" /\ Bit(uart.dev.command, 0) = 0) =>
    /\ Uart_read_u8(uart'.dev, UART_RXTL) = Uart_read_u8(uart.dev, UART_RXTL)
    /\ Uart_read_u8(uart'.dev, UART_TXHD) = Uart_read_u8(uart.dev, UART_TXHD)

\* C17: after every UART tick STAT reads 0x40 if CMND bit 0 is set and 0
\* otherwise, whatever was written to STAT; after a tick with CMND bit 0
\* clear the receive head and the transmit tail are 0 and the receive tail
\* and transmit head are unchanged.
C17_Status == [](C17_AfterTick) /\ [][C17_DisabledTick]_vars

\* a disabled tick that found RXHD, RXTL and TXHD away from 0
C17_Witness ==
  /\ obs.call = "tick"
  /\ Bit(uart.dev.command, 0) = 0
  /\ uart.dev.receive_buffer.tail # 0
  /\ uart.dev.transmit_buffer.head # 0
  /\ uart.dev.source.pos > 0

\* C18: with decimal mode off ADC #M leaves A = (A + M + C) mod 256,
\* carry = (A + M + C >= 256), zero = (result = 0), negative = bit 7 of the
\* result, and overflow = (the signed sum lies outside -128..127).
C18_AdcBinary ==
  (alu.done /\ alu.op = "ADC") =>
    /\ alu.out.a = (alu.a + alu.m + B2N(alu.carry)) % 256
    /\ flag(alu.out.p, CARRY) = (alu.a + alu.m + B2N(alu.carry) >= 256)
    /\ flag(alu.out.p, ZERO) = (alu.out.a = 0)
    /\ flag(alu.out.p, NEGATIVE) = (Bit(alu.out.a, 7) = 1)
    /\ flag(alu.out.p, OVERFLOW)
         = (as_i8(alu.a) + as_i8(alu.m) + B2N(alu.carry) \notin (-128)..127)
    /\ ~flag(alu.p, DECIMAL_MODE)

\* an addition of 0xFF with carry in: the result is A again and carries out
C18_Witness ==
  /\ alu.done /\ alu.op = "ADC"
  /\ alu.carry /\ alu.m = 255
  /\ flag(alu.out.p, CARRY)
  /\ alu.out.a = alu.a

\* C19: with decimal mode off SBC #M yields the same A and the same N, Z, C
\* and V flags as ADC #(M XOR 0xFF) executed from the same state.
C19_SbcIsAdcOfComplement ==
  (alu.done /\ alu.op = "SBC") =>
    /\ alu.out.a = AluRun("ADC", alu.a, BitXor(alu.m, 255), alu.carry, alu.overflow).a
    /\ alu.out.p = AluRun("ADC", alu.a, BitXor(alu.m, 255), alu.carry, alu.overflow).p
    /\ ~flag(alu.p, DECIMAL_MODE)

\* a subtraction that borrows
C19_Witness ==
  /\ alu.done /\ alu.op = "SBC"
  /\ alu.a < alu.m /\ alu.carry
  /\ alu.out.a = alu.a - alu.m + 256
  /\ ~flag(alu.out.p, CARRY)

BcdValid(b) == (b % 16) <= 9 /\ (b \div 16) <= 9
BcdValue(b) == 10 * (b \div 16) + (b % 16)
PackedBcd(n) == 16 * (n \div 10) + (n % 10)

\* C21: with decimal mode on and A and M valid packed BCD, ADC #M leaves
\* A = BCD((A + M + C) mod 100) with carry = (A + M + C >= 100), SBC #M leaves
\* A = BCD((A - M - (1 - C)) mod 100) with carry = (A - M - (1 - C) >= 0), and
\* the zero flag reflects the final byte.
C21_Decimal ==
  (alu.done /\ flag(alu.p, DECIMAL_MODE) /\ BcdValid(alu.a) /\ BcdValid(alu.m)) =>
    /\ alu.op = "ADC" =>
         /\ alu.out.a = PackedBcd((BcdValue(alu.a) + BcdValue(alu.m) + B2N(alu.carry)) % 100)
         /\ flag(alu.out.p, CARRY)
              = (BcdValue(alu.a) + BcdValue(alu.m) + B2N(alu.carry) >= 100)
    /\ alu.op = "SBC" =>
         /\ alu.out.a = PackedBcd((100 + BcdValue(alu.a) - BcdValue(alu.m)
                                       - (1 - B2N(alu.carry))) % 100)
         /\ flag(alu.out.p, CARRY)
              = (BcdValue(alu.a) - BcdValue(alu.m) - (1 - B2N(alu.carry)) >= 0)
    /\ flag(alu.out.p, ZERO) = (alu.out.a = 0)

\* 99 + 1 in decimal mode: the result is 00 with carry and zero set
C21_Witness ==
  /\ alu.done /\ alu.op = "ADC" /\ flag(alu.p, DECIMAL_MODE)
  /\ alu.a = 153 /\ alu.m = 1 /\ ~alu.carry
  /\ alu.out.a = 0
  /\ flag(alu.out.p, CARRY) /\ flag(alu.out.p, ZERO)

\* a decimal subtraction that borrows: 00 - 01 = 99, carry clear
C21_WitnessBorrow ==
  /\ alu.done /\ alu.op = "SBC" /\ flag(alu.p, DECIMAL_MODE)
  /\ alu.a = 0 /\ alu.m = 1 /\ alu.carry
  /\ alu.out.a = 153
  /\ ~flag(alu.out.p, CARRY)

C27_StackBalance ==
  RunningStep(last) => s = (last.pre.s - last.pushes + last.pops) % 256

TXS_OPCODE == 154
PHA_OPCODE == 72

\* C27: after every step_instruction that executes an instruction other
\* than TXS, S = S before - bytes pushed + bytes popped, modulo 256 (the
\* pushes of an interrupt sequence entered by the step included); TXS pushes
\* and pops nothing and leaves S = X.
C27_StackBalanceExceptTxs ==
  RunningStep(last) =>
    IF last.fetched = TXS_OPCODE
    THEN s = last.pre.x /\ s = last.mid.x
    ELSE s = (last.pre.s - last.pushes + last.pops) % 256

\* PHA with S = 0: one byte pushed, S wraps to 0xFF
C27_Witness ==
  /\ RunningStep(last)
  /\ last.fetched = PHA_OPCODE
  /\ last.pre.s = 0 /\ last.pushes = 1 /\ last.pops = 0
  /\ s = 255

\* TXS with X different from S
C27_WitnessTxs ==
  /\ RunningStep(last)
  /\ last.fetched = TXS_OPCODE
  /\ last.pre.s # last.pre.x
  /\ s = last.pre.x

\* ------------------------------------------------------------------------
\* Subroutine call and return
\* ------------------------------------------------------------------------
JSR_OPCODE == 32

\* a step that executed the opcode byte b
Executed(o, b) == RunningStep(o) /\ o.fetched = b

\* a JSR at p = mid.pc with S = mid.s pushes the high then the low byte of
\* p + 2 and leaves PC = the operand word t
C28_Jsr ==
  Executed(last, JSR_OPCODE) =>
    LET acc == Accesses(last)
        n == FetchIndex(last)
    IN /\ Len(acc) = n + 4
       /\ acc[n] = <<"read", last.mid.pc, JSR_OPCODE>>
       /\ acc[n + 3] = <<"write", 256 + last.mid.s, hi_byte(U16(last.mid.pc + 2))>>
       /\ acc[n + 4] = <<"write", 256 + ((last.mid.s - 1) % 256),
                         lo_byte(U16(last.mid.pc + 2))>>
       /\ pc = from_le_bytes(acc[n + 1][3], acc[n + 2][3])
       /\ s = (last.mid.s - 2) % 256

\* the RTS executed by the step after the JSR returns to p + 3 and restores S
C28_Return ==
  (Executed(last, JSR_OPCODE) /\ Executed(last', RTS_OPCODE) /\ ~InterruptEntry(last')) =>
    /\ pc' = U16(last.mid.pc + 3)
    /\ s' = last.mid.s

\* C28: JSR at p with target t pushes the high then the low byte of p + 2 and
\* sets PC = t; the RTS that executes next, with the stacked bytes and S
\* untouched, sets PC = p + 3 and restores S, also when S wraps.
C28_JsrRts == [](C28_Jsr) /\ [][C28_Return]_vars

\* JSR with S = 0 to the RAM routine, and its RTS: the stacked bytes lie at
\* 0x0100 and 0x01FF, and S is 0 again
C28_Witness ==
  /\ Executed(last, RTS_OPCODE)
  /\ last.pre.pc = RAM_ROUTINE
  /\ last.pre.s = 254
  /\ Accesses(last)[2] = <<"read", 511, lo_byte(ROM_BASE + 2)>>
  /\ Accesses(last)[3] = <<"read", 256, hi_byte(ROM_BASE + 2)>>
  /\ s = 0
  /\ pc = ROM_BASE + 3

\* ------------------------------------------------------------------------
\* Interrupt entry and return
\* ------------------------------------------------------------------------
\* C29: an IRQ or NMI sequence entered with program counter p, stack pointer
\* s and status P, whose handler executes RTI with S = s - 3 and the three
\* stacked bytes intact, ends with PC = p, S = s and the status register
\* equal to P in all eight bits.
C29_InterruptReturn ==
  (Executed(last, RTI_OPCODE) /\ InterruptEntry(last)) =>
    /\ last.mid.s = (last.pre.s - 3) % 256
    /\ last.pushes = 3 /\ last.pops = 3
    /\ pc = last.pre.pc
    /\ s = last.pre.s
    /\ p = last.pre.p

\* an NMI taken with decimal and irqb_disable set and S = 1: the sequence
\* clears decimal, wraps the stack, and RTI brings all of it back
C29_Witness ==
  /\ Executed(last, RTI_OPCODE) /\ InterruptEntry(last)
  /\ last.nmi
  /\ last.pre.s = 1 /\ last.mid.s = 254
  /\ flag(last.pre.p, DECIMAL_MODE) /\ ~flag(last.mid.p, DECIMAL_MODE)
  /\ flag(p, DECIMAL_MODE)
  /\ pc = ROM_BASE

\* an IRQ taken with irqb_disable clear: RTI clears it again
C29_WitnessIrq ==
  /\ Executed(last, RTI_OPCODE) /\ InterruptEntry(last)
  /\ ~last.nmi /\ last.irq
  /\ ~flag(last.pre.p, IRQB_DISABLE) /\ flag(last.mid.p, IRQB_DISABLE)
  /\ ~flag(p, IRQB_DISABLE)

\* ------------------------------------------------------------------------
\* Assembler claims
\* ------------------------------------------------------------------------
\* the length in bytes of a branch instruction: opcode and displacement, and
\* the zero-page address of a BBRn/BBSn
BranchLength(m) == IF m \in BitBranchMnemonics THEN 3 ELSE 2

\* the address of the branch and of its target in the two branch programs
BranchAt(input) == IF input.family = "forward" THEN 0 ELSE 1 + input.n
TargetAt(input) ==
  IF input.family = "forward" THEN BranchLength(input.m) + input.n ELSE 0

\* label address - address of the byte after the instruction
Displacement(input) == TargetAt(input) - (BranchAt(input) + BranchLength(input.m))

\* the branch is taken: its flag, or its bit of the tested byte, is as it asks
Taken(m, high) ==
  \/ m = "BRA"
  \/ high = (m \in {"BCS", "BEQ", "BMI", "BVS", "BBS0", "BBS1", "BBS2", "BBS3",
                    "BBS4", "BBS5", "BBS6", "BBS7"})

\* C22: for every instruction with a PC-relative label operand, assemble
\* encodes the signed byte (label address - address of the byte after the
\* instruction) when that displacement lies in -128..127, and executing the
\* taken branch sets PC to the address of the labelled instruction; for any
\* other displacement assembly fails with JumpTooFar.
C22_Branch ==
  asm # Absent /\ asm.input.family \in {"forward", "backward"} =>
    /\ asm.pass = "returned" =>
         IF Displacement(asm.input) \in -128..127
         THEN /\ asm.result = "Ok"
              /\ Len(asm.out) >= BranchAt(asm.input) + BranchLength(asm.input.m)
              /\ asm.out[BranchAt(asm.input) + BranchLength(asm.input.m)]
                   = U8(Displacement(asm.input) + 256)
         ELSE asm.result = "JumpTooFar"
    /\ asm.branched /\ ~panicked /\ Taken(asm.input.m, asm.high) =>
         pc = TargetAt(asm.input)

\* the same for the branches whose operands fit their encoding (a BBRn/BBSn
\* on a zero-page address)
C22_BranchZeroPage ==
  \/ asm # Absent /\ asm.input.m \in BitBranchMnemonics /\ asm.input.v > 255
  \/ C22_Branch

C22_WitnessForward ==
  /\ asm # Absent /\ asm.input.family = "forward" /\ asm.input.n = 127
  /\ asm.input.m = "BBS0" /\ asm.input.v <= 255
  /\ asm.branched /\ asm.high /\ pc = 130
C22_WitnessBackward ==
  /\ asm # Absent /\ asm.input.family = "backward" /\ asm.input.n = 125
  /\ asm.input.m = "BNE" /\ asm.branched /\ ~asm.high /\ pc = 0
C22_WitnessTooFar ==
  /\ asm # Absent /\ asm.input.family = "backward" /\ asm.input.n = 126
  /\ asm.input.m = "BNE" /\ asm.result = "JumpTooFar"
\* BBS0 $1234, target: accepted, and four bytes written for it
C22_WitnessWide ==
  /\ asm # Absent /\ asm.input.family = "forward" /\ asm.input.n = 1
  /\ asm.input.m = "BBS0" /\ asm.input.v = 4660
  /\ asm.result = "Ok" /\ asm.out = <<143, 52, 18, 1, 234, 234>>

AssemblerError ==
  {"DoubleLabel", "UnknownLabel", "ParameterMismatch", "JumpTooFar", "AddressOverflow"}

\* C23: whenever assemble returns an error (DoubleLabel for a label bound
\* twice, UnknownLabel for an operand label that is never bound,
\* ParameterMismatch, JumpTooFar, or AddressOverflow when the running address
\* would exceed 0xFFFF) not a single byte has been written to the output.
C23_NoPartialOutput ==
  asm # Absent =>
    /\ asm.result \in AssemblerError \cup {"", "Ok"}
    /\ asm.result \in AssemblerError => asm.out = <<>>
    /\ asm.pass = "returned" =>
         /\ asm.input.family = "twice" => asm.result = "DoubleLabel"
         /\ asm.input.family = "unbound" => asm.result = "UnknownLabel"
         /\ asm.input.family = "long" <=> asm.result = "AddressOverflow"
         /\ asm.result = "AddressOverflow" =>
              /\ asm.address <= 65535
              /\ asm.address + width(get_instructions(asm.input.m)[1]) > 65535

\* UnknownLabel found by pass 2 after it has passed over an instruction
C23_Witness ==
  /\ asm # Absent /\ asm.result = "UnknownLabel" /\ asm.pass = "returned"
  /\ asm.i = 2 /\ Len(asm.assembled_instructions) = 2 /\ asm.out = <<>>
C23_WitnessDoubleLabel ==
  asm # Absent /\ asm.result = "DoubleLabel" /\ asm.i = 3
C23_WitnessJumpTooFar ==
  asm # Absent /\ asm.result = "JumpTooFar" /\ asm.i = 2 /\ asm.input.n = 126
C23_WitnessParameterMismatch ==
  asm # Absent /\ asm.result = "ParameterMismatch" /\ asm.i = 2
C23_WitnessAddressOverflow ==
  /\ asm # Absent /\ asm.result = "AddressOverflow"
  /\ asm.address = 65535 /\ asm.k = 21846

\* the absolute addressing mode an operand form denotes, and its zero-page
\* counterpart
AbsoluteModeOf(form) ==
  CASE form = "a" -> "Absolute"
    [] form = "a,x" -> "AbsoluteIndexedX"
    [] form = "a,y" -> "AbsoluteIndexedY"
    [] form = "(a)" -> "AbsoluteIndirect"
    [] form = "(a,x)" -> "AbsoluteIndexedIndirectX"
ZeroPageModeOf(form) ==
  CASE form = "a" -> "ZeroPage"
    [] form = "a,x" -> "ZeroPageIndexedX"
    [] form = "a,y" -> "ZeroPageIndexedY"
    [] form = "(a)" -> "ZeroPageIndirect"
    [] form = "(a,x)" -> "ZeroPageIndexedIndirectX"

\* the mnemonic has an encoding whose first operand is in the mode
HasMode(m, mode) ==
  \E i \in DOMAIN get_instructions(m) : get_instructions(m)[i].parameter_1 = mode

\* the opcode bytes of the one-operand encodings of the mnemonic in the mode
Encodings(m, mode) ==
  {get_instructions(m)[i].byte :
     i \in {j \in DOMAIN get_instructions(m) :
              /\ get_instructions(m)[j].parameter_1 = mode
              /\ get_instructions(m)[j].parameter_2 = "None"}}

\* C24: for an operand value v in an absolute-family form, assemble selects
\* the corresponding zero-page encoding with a one-byte operand iff v <= 255
\* and the mnemonic has an encoding in that zero-page mode; in every other
\* case it keeps the absolute encoding with a two-byte little-endian operand.
\* (A mnemonic without an encoding in the selected mode is a ParameterMismatch.)
C24_ZeroPage ==
  asm # Absent /\ asm.input.family = "absolute" /\ asm.pass = "returned" =>
    IF asm.input.v <= 255 /\ HasMode(asm.input.m, ZeroPageModeOf(asm.input.form))
    THEN IF Encodings(asm.input.m, ZeroPageModeOf(asm.input.form)) = {}
         THEN asm.result = "ParameterMismatch"
         ELSE /\ asm.result = "Ok"
              /\ \E b \in Encodings(asm.input.m, ZeroPageModeOf(asm.input.form)) :
                   asm.out = <<b, asm.input.v>>
    ELSE IF Encodings(asm.input.m, AbsoluteModeOf(asm.input.form)) = {}
         THEN asm.result = "ParameterMismatch"
         ELSE /\ asm.result = "Ok"
              /\ \E b \in Encodings(asm.input.m, AbsoluteModeOf(asm.input.form)) :
                   asm.out = <<b, asm.input.v % 256, asm.input.v \div 256>>

\* JMP $00FF: no zero-page encoding, the absolute one is kept
C24_Witness ==
  /\ asm # Absent /\ asm.input.family = "absolute" /\ asm.input.m = "JMP"
  /\ asm.input.form = "a" /\ asm.input.v = 255 /\ asm.out = <<76, 255, 0>>
C24_WitnessZeroPage ==
  /\ asm # Absent /\ asm.input.family = "absolute" /\ asm.input.m = "LDA"
  /\ asm.input.form = "a,x" /\ asm.input.v = 255 /\ asm.out = <<181, 255>>
C24_WitnessAbsolute ==
  /\ asm # Absent /\ asm.input.family = "absolute" /\ asm.input.m = "LDA"
  /\ asm.input.form = "a" /\ asm.input.v = 256 /\ asm.out = <<173, 0, 1>>

\* pass 1 has recorded an AssembledInstruction for the instruction
Accepted == asm.assembled_instructions # <<>>

\* C25: an instruction that has a label operand is accepted by pass 1 only if
\* its mnemonic has exactly one encoding in the opcode table; for every
\* mnemonic with more than one encoding (JMP or LDA with a label, say)
\* assembly fails with ParameterMismatch.
C25_LabelledOneEncoding ==
  asm # Absent /\ asm.input.family = "labelled" /\ (asm.pass # "pass 1" \/ asm.i > 1) =>
    /\ Accepted => Len(get_instructions(asm.input.m)) = 1
    /\ Len(get_instructions(asm.input.m)) > 1 =>
         asm.pass = "returned" /\ asm.result = "ParameterMismatch"

\* JMP here: two encodings, refused
C25_Witness ==
  /\ asm # Absent /\ asm.input.family = "labelled" /\ asm.input.m = "JMP"
  /\ asm.input.form = "l" /\ asm.result = "ParameterMismatch" /\ ~Accepted
C25_WitnessLda ==
  /\ asm # Absent /\ asm.input.family = "labelled" /\ asm.input.m = "LDA"
  /\ asm.input.form = "l,x" /\ asm.result = "ParameterMismatch" /\ ~Accepted
\* JSR here: one encoding, assembled to JSR $0000
C25_WitnessAccepted ==
  /\ asm # Absent /\ asm.input.family = "labelled" /\ asm.input.m = "JSR"
  /\ asm.input.form = "l" /\ asm.result = "Ok" /\ asm.out = <<32, 0, 0>>

\* the j-th instruction of a list held as runs, and the length of the list
RECURSIVE InstructionAt(_, _)
InstructionAt(runs, j) ==
  IF j <= runs[1].times THEN runs[1] ELSE InstructionAt(Tail(runs), j - runs[1].times)
RECURSIVE InstructionCount(_)
InstructionCount(runs) ==
  IF runs = <<>> THEN 0 ELSE runs[1].times + InstructionCount(Tail(runs))

\* two parameters are the same parameter
RECURSIVE SameParameter(_, _)
SameParameter(q, r) ==
  /\ q.k = r.k
  /\ CASE q.k \in {"Immediate", "Absolute", "Label"} -> q.v = r.v
       [] q.k = "Indirect" -> SameParameter(q.v, r.v)
       [] q.k = "List" ->
            /\ Len(q.v) = Len(r.v)
            /\ \A j \in DOMAIN q.v : SameParameter(q.v[j], r.v[j])
       [] OTHER -> TRUE

\* C26: for every instruction list that assembles successfully, disassemble
\* applied to the emitted bytes returns the original sequence of mnemonics
\* and parameters (an operand <= 255 is the same operand in its zero-page
\* encoding).
C26_RoundTrip ==
  asm # Absent /\ asm.disassembled =>
    /\ Len(asm.listing) = InstructionCount(asm.instructions)
    /\ \A j \in DOMAIN asm.listing :
         /\ asm.listing[j].mnemonic = InstructionAt(asm.instructions, j).mnemonic
         /\ SameParameter(asm.listing[j].parameter,
                          InstructionAt(asm.instructions, j).parameter)

\* NOP; NOP assembled to EA EA, and nothing comes back
C26_Failing ==
  /\ asm # Absent /\ asm.disassembled /\ asm.input.family = "plain"
  /\ asm.out = <<234, 234>> /\ asm.listing = <<>>
\* the empty list comes back as the empty list
C26_WitnessEmpty ==
  asm # Absent /\ asm.disassembled /\ asm.instructions = <<>> /\ asm.out = <<>>
\* the CPU reads 8F 34 12 as BBS0 $34, +$12
C22_WitnessAstray ==
  /\ C22_WitnessWide /\ asm.branched /\ pc \in {3, 21}

\* ------------------------------------------------------------------------
\* Widths, cycles, addressing modes, keyboard, timers
\* ------------------------------------------------------------------------
\* bytes written for the assembled instructions before run i
RECURSIVE BytesBefore(_, _)
BytesBefore(runs, i) ==
  IF i <= 1 THEN 0
  ELSE BytesBefore(runs, i - 1) + runs[i - 1].times * Len(instruction_bytes(runs[i - 1].e))

\* C33: for every program that assembles successfully, the number of bytes
\* emitted for each instruction equals the width 1 + width(p1) + width(p2)
\* used for address assignment, so the address bound to a label equals the
\* byte offset of its instruction in the output; this for every accepted
\* operand form, (zp),y operands and the two-operand BBRn/BBSn form included.
C33_WidthIsBytes ==
  asm # Absent /\ asm.result = "Ok" =>
    /\ Len(asm.out) = asm.address
    /\ \A i \in DOMAIN asm.assembled_instructions :
         Len(instruction_bytes(asm.assembled_instructions[i].e))
           = width(asm.assembled_instructions[i].e.instruction)
    /\ asm.input.family \in {"forward", "backward"} =>
         /\ asm.labels["target"] = TargetAt(asm.input)
         /\ asm.out[asm.labels["target"] + 1] = 234

\* the same for operands that fit the addressing mode chosen for them
C33_WidthIsBytesFitting ==
  \/ asm # Absent /\ asm.input.m \in BitBranchMnemonics /\ asm.input.v > 255
  \/ asm # Absent /\ asm.input.form = "(a),y"
  \/ C33_WidthIsBytes

\* LDA ($12),Y after a NOP: width 2, bytes B1 12 00
C33_WitnessIndirectY ==
  /\ asm # Absent /\ asm.result = "Ok" /\ asm.input.form = "(a),y" /\ asm.input.m = "LDA"
  /\ asm.address = 3 /\ asm.out = <<234, 177, 18, 0>>
\* BBS0 $1234, target: width 3, four bytes, the label bound to 4 and the
\* labelled NOP at offset 5
C33_WitnessBitBranch ==
  /\ C22_WitnessWide /\ asm.labels["target"] = 4 /\ asm.address = 5
C33_WitnessFitting ==
  /\ asm # Absent /\ asm.result = "Ok" /\ asm.input.family = "backward"
  /\ asm.input.m = "BBR7" /\ asm.input.v = 240 /\ asm.input.n = 124
  /\ asm.address = 128 /\ Len(asm.out) = 128

\* the step fetched a byte that has no entry in the opcode table
Undocumented(o) == RunningStep(o) /\ o.fetched \in 0..255 /\ ~is_some(get_instruction(o.fetched))

\* C40: for each opcode byte that has no entry in the opcode table,
\* step_instruction advances PC by exactly 1, returns 1, and changes no
\* register other than PC, no flag, no stack byte and no other memory byte
\* (the registers are compared with those the interrupt sample of the same
\* call left; a call without an interrupt sequence leaves memory as it was).
C40_Step ==
  Undocumented(last') =>
    /\ last'.ret = 1
    /\ pc' = last'.mid.pc + 1
    /\ cycle' = last'.mid.cycle + 1
    /\ <<a', x', y', s', p', run', wai'>>
         = <<last'.mid.a, last'.mid.x, last'.mid.y, last'.mid.s, last'.mid.p,
             last'.mid.run, last'.mid.wai>>
    /\ last'.pops = 0
    /\ last'.seq = "none" =>
         /\ memory' = memory
         /\ last'.pushes = 0
         /\ <<a', x', y', s', p'>> = <<a, x, y, s, p>>
         /\ pc' = pc + 1
C40_UndocumentedNoOp == [][C40_Step]_vars

\* byte 0x03 at the reset vector, no interrupt signalled
C40_Witness ==
  /\ Undocumented(last) /\ last.fetched = 3 /\ last.seq = "none"
  /\ last.pre.pc = ROM_BASE /\ pc = ROM_BASE + 1 /\ last.ret = 1 /\ cycle = 1

\* ------------------------------------------------------------------------
\* One instruction stepped from a chosen set-up (SpecOp)
\* ------------------------------------------------------------------------
\* the instruction of the set-up has been stepped
Stepped(family) == last.call = "step" /\ obs.family = family
\* the table entry of the instruction of the set-up
SetupOpcode == get_instruction(obs.program[1])
\* the 16-bit operand of the set-up
SetupWord == from_le_bytes(obs.program[2], obs.program[3])
\* base + X is on another page than base
SetupCrosses == page_crossed(SetupWord, U16(SetupWord + obs.x))

\* C35 as stated: for INC, DEC, ASL, LSR, ROL, ROR and STZ in
\* AbsoluteIndexedX mode step_instruction returns exactly the opcode's base
\* cycle count for every base address and every X, crossing or not.
C35_BaseCycles ==
  Stepped("rmw") => last.ret = SetupOpcode.cycles

\* C35: INC, DEC and STZ in AbsoluteIndexedX mode return exactly the base
\* cycle count for every base address and every X, crossing or not; ASL,
\* LSR, ROL and ROR in that mode return the base count, plus 1 when base+X
\* crosses a page boundary.
C35_BaseCyclesUnlessShift ==
  Stepped("rmw") =>
    /\ SetupOpcode.parameter_1 = "AbsoluteIndexedX"
    /\ Accesses(last)[4][2] = U16(SetupWord + obs.x)
    /\ last.ret = SetupOpcode.cycles
                    + (IF SetupOpcode.opcode \in {"ASL", "LSR", "ROL", "ROR"} /\ SetupCrosses
                       THEN 1 ELSE 0)

\* ROL $02FF,X with X = 1: one cycle more than the base count
C35_WitnessShift ==
  /\ Stepped("rmw") /\ SetupOpcode.opcode = "ROL" /\ SetupWord = 767 /\ obs.x = 1
  /\ last.ret = SetupOpcode.cycles + 1
\* DEC $0280,X with X = 0x80: the base count, 0x0300 decremented
C35_WitnessDec ==
  /\ Stepped("rmw") /\ SetupOpcode.opcode = "DEC" /\ SetupWord = 640 /\ obs.x = 128
  /\ last.ret = SetupOpcode.cycles
  /\ MappedMemory_read_u8(memory, 768) = 128
\* STZ $02FF,X with X = 0xFF
C35_WitnessStz ==
  /\ Stepped("rmw") /\ SetupOpcode.opcode = "STZ" /\ SetupWord = 767 /\ obs.x = 255
  /\ last.ret = SetupOpcode.cycles
  /\ MappedMemory_read_u8(memory, 1022) = 0

\* the condition of a branch mnemonic under status byte sr
BranchCondition(m, sr) ==
  CASE m = "BCC" -> ~flag(sr, CARRY)
    [] m = "BCS" -> flag(sr, CARRY)
    [] m = "BEQ" -> flag(sr, ZERO)
    [] m = "BNE" -> ~flag(sr, ZERO)
    [] m = "BMI" -> flag(sr, NEGATIVE)
    [] m = "BPL" -> ~flag(sr, NEGATIVE)
    [] m = "BVC" -> ~flag(sr, OVERFLOW)
    [] m = "BVS" -> flag(sr, OVERFLOW)
    [] OTHER -> TRUE
\* the address after a two-byte instruction at the place of the set-up
SetupNext == obs.place + 2
\* (p + 2 + d) mod 65536 for the signed offset d of the set-up
SetupTarget == (65536 + SetupNext + as_i8(obs.program[2])) % 65536

\* C36: for BCC, BCS, BEQ, BNE, BMI, BPL, BVC, BVS and BRA with signed
\* offset d at address p: if the condition holds (always for BRA) PC becomes
\* (p+2+d) mod 65536 and the step returns the base cycles plus 1, or plus 2
\* when the high byte of the target differs from the high byte of p+2; if
\* the condition fails PC becomes p+2 and no extra cycle is charged.
C36_Branch ==
  Stepped("branch") =>
    IF BranchCondition(SetupOpcode.opcode, obs.p)
    THEN /\ pc = SetupTarget
         /\ last.ret = SetupOpcode.cycles
                         + (IF SetupTarget \div 256 # SetupNext \div 256 THEN 2 ELSE 1)
    ELSE /\ pc = SetupNext
         /\ last.ret = SetupOpcode.cycles

\* BRA at 0xFFF0 with offset 0x7F: the target wraps to 0x0071, two more cycles
C36_WitnessWrap ==
  /\ Stepped("branch") /\ SetupOpcode.opcode = "BRA" /\ obs.place = 65520
  /\ obs.program[2] = 127 /\ pc = 113 /\ last.ret = SetupOpcode.cycles + 2
\* BNE at 0x0000 with offset 0xF0 and Z clear: back over address 0 to 0xFFF2
C36_WitnessBack ==
  /\ Stepped("branch") /\ SetupOpcode.opcode = "BNE" /\ obs.place = 0 /\ obs.p = 48
  /\ obs.program[2] = 240 /\ pc = 65522 /\ last.ret = SetupOpcode.cycles + 2
\* BCS at 0x03FD with offset 0x00 and C set: taken to 0x03FF, the page of p+2
C36_WitnessSamePage ==
  /\ Stepped("branch") /\ SetupOpcode.opcode = "BCS" /\ obs.place = 1021 /\ obs.p = 255
  /\ obs.program[2] = 0 /\ pc = 1023 /\ last.ret = SetupOpcode.cycles + 1
\* BEQ with Z clear: not taken
C36_WitnessNotTaken ==
  /\ Stepped("branch") /\ SetupOpcode.opcode = "BEQ" /\ obs.place = 1008 /\ obs.p = 48
  /\ obs.program[2] = 128 /\ pc = 1010 /\ last.ret = SetupOpcode.cycles

\* the zero-page address q of the pointer of the set-up
SetupPointer ==
  IF SetupOpcode.parameter_1 = "ZeroPageIndexedIndirectX"
  THEN (obs.program[2] + obs.x) % 256
  ELSE obs.program[2]
\* the byte the set-up placed at a zero-page address
RECURSIVE DataAt(_, _)
DataAt(data, address) ==
  IF data = <<>> THEN 0
  ELSE IF data[1][1] = address THEN data[1][2] ELSE DataAt(Tail(data), address)

\* C38: for the ZeroPageIndirect, ZeroPageIndexedIndirectX and
\* ZeroPageIndirectIndexedY modes the pointer's two bytes are read from the
\* zero-page addresses q and (q+1) mod 256 (for q = 0xFF the high byte comes
\* from 0x0000, never 0x0100), where for ZeroPageIndexedIndirectX q is
\* (operand + X) mod 256; the access that follows is at the pointer so read
\* (plus Y in ZeroPageIndirectIndexedY mode).
C38_PointerInZeroPage ==
  Stepped("indirect") =>
    /\ Len(Accesses(last)) = 5
    /\ Accesses(last)[3] = <<"read", SetupPointer, DataAt(IndirectData, SetupPointer)>>
    /\ Accesses(last)[4]
         = <<"read", (SetupPointer + 1) % 256, DataAt(IndirectData, (SetupPointer + 1) % 256)>>
    /\ Accesses(last)[4][2] # 256
    /\ Accesses(last)[5][2]
         = U16(from_le_bytes(DataAt(IndirectData, SetupPointer),
                             DataAt(IndirectData, (SetupPointer + 1) % 256))
               + (IF SetupOpcode.parameter_1 = "ZeroPageIndirectIndexedY" THEN obs.y ELSE 0))

\* LDA ($FF): low byte 0x55 from 0x00FF, high byte 0x12 from 0x0000
C38_WitnessIndirect ==
  /\ Stepped("indirect") /\ SetupOpcode.opcode = "LDA"
  /\ SetupOpcode.parameter_1 = "ZeroPageIndirect" /\ obs.program[2] = 255
  /\ Accesses(last)[3] = <<"read", 255, 85>> /\ Accesses(last)[4] = <<"read", 0, 18>>
  /\ Accesses(last)[5][2] = 4693
\* STA ($FE,X) with X = 1: the sum 0xFF, the pointer from 0x00FF and 0x0000
C38_WitnessIndexedX ==
  /\ Stepped("indirect") /\ SetupOpcode.opcode = "STA"
  /\ SetupOpcode.parameter_1 = "ZeroPageIndexedIndirectX" /\ obs.program[2] = 254
  /\ obs.x = 1 /\ Accesses(last)[4] = <<"read", 0, 18>>
  /\ Accesses(last)[5] = <<"write", 4693, 170>>
\* LDA ($10,X) with X = 0xFF: the sum wraps to 0x0F
C38_WitnessIndexWraps ==
  /\ Stepped("indirect") /\ SetupOpcode.opcode = "LDA"
  /\ SetupOpcode.parameter_1 = "ZeroPageIndexedIndirectX" /\ obs.program[2] = 16
  /\ obs.x = 255 /\ Accesses(last)[3] = <<"read", 15, 33>>
  /\ Accesses(last)[4] = <<"read", 16, 52>>
\* LDA ($FF),Y with Y = 0xFF
C38_WitnessIndexedY ==
  /\ Stepped("indirect") /\ SetupOpcode.opcode = "LDA"
  /\ SetupOpcode.parameter_1 = "ZeroPageIndirectIndexedY" /\ obs.program[2] = 255
  /\ obs.y = 255 /\ Accesses(last)[4] = <<"read", 0, 18>>
  /\ Accesses(last)[5][2] = 4948

\* C39: BIT in Immediate mode sets the zero flag to ((A AND M) = 0) and
\* leaves the negative and overflow flags unchanged; in every other
\* addressing mode it additionally sets negative to bit 7 of M and overflow
\* to bit 6 of M. The accumulator and the other flags are left as they were.
C39_Bit ==
  Stepped("bit") =>
    /\ flag(p, ZERO) = (BitAnd(obs.a, obs.m) = 0)
    /\ IF SetupOpcode.parameter_1 = "Immediate"
       THEN /\ flag(p, NEGATIVE) = flag(obs.p, NEGATIVE)
            /\ flag(p, OVERFLOW) = flag(obs.p, OVERFLOW)
       ELSE /\ flag(p, NEGATIVE) = (Bit(obs.m, 7) = 1)
            /\ flag(p, OVERFLOW) = (Bit(obs.m, 6) = 1)
    /\ a = obs.a
    /\ \A n \in {0, 2, 3, 4, 5} : flag(p, n) = flag(obs.p, n)

\* BIT #$C0 with A = 1 and N, V clear: Z set, N and V still clear
C39_WitnessImmediate ==
  /\ Stepped("bit") /\ SetupOpcode.parameter_1 = "Immediate" /\ obs.m = 192 /\ obs.a = 1
  /\ obs.p = 48 /\ p = 50
\* BIT #$01 with A = 1 and every flag set: Z cleared, N and V still set
C39_WitnessImmediateSet ==
  /\ Stepped("bit") /\ SetupOpcode.parameter_1 = "Immediate" /\ obs.m = 1 /\ obs.a = 1
  /\ obs.p = 255 /\ p = 253
\* BIT $20 with M = 0xC0, A = 1: Z, N and V set
C39_WitnessZeroPage ==
  /\ Stepped("bit") /\ SetupOpcode.parameter_1 = "ZeroPage" /\ obs.m = 192 /\ obs.a = 1
  /\ obs.p = 48 /\ p = 242
\* BIT $0020,X with M = 1, A = 0xFF and every flag set: Z, N and V cleared
C39_WitnessAbsoluteX ==
  /\ Stepped("bit") /\ SetupOpcode.parameter_1 = "AbsoluteIndexedX" /\ obs.m = 1
  /\ obs.a = 255 /\ obs.p = 255 /\ p = 61

\* ------------------------------------------------------------------------
\* The keyboard matrix (SpecKeys)
\* ------------------------------------------------------------------------
\* IORA was read with DDRA = 7
Scanned == obs.call = "scan"
\* the bit of key k in the byte read for its column is 0
ReadsPressed(k) == Bit(obs.ret, (k % 5) + 3) = 0
\* the column of key k was the one selected
InColumn(k) == obs.value = k \div 5

\* C37: with DDRA = 7, in the byte read from IORA for the selected column
\* the bit of a key is 0 iff the key is currently pressed: iff the most
\* recent set_pressed call for it had pressed = true; a key never reported
\* reads as not pressed, also before any set_pressed call at all.
C37_KeyBits ==
  Scanned =>
    \A k \in KeyCodes : InColumn(k) => (ReadsPressed(k) <=> obs.reported[k] = "pressed")

\* the same for the keys that have been reported at least once; the low
\* three bits of the byte read are the column
C37_ReportedKeyBits ==
  Scanned =>
    /\ \A k \in KeyCodes :
         InColumn(k) /\ obs.reported[k] # "never"
           => (ReadsPressed(k) <=> obs.reported[k] = "pressed")
    /\ obs.ret % 8 = obs.value

\* column 0 read before any set_pressed call: 0x00, every key of it pressed
C37_WitnessFresh ==
  /\ Scanned /\ obs.value = 0 /\ obs.ret = 0
  /\ \A k \in KeyCodes : obs.reported[k] = "never"
\* key 39 pressed then released, key 7 pressed: column 7 reads 0x87 with
\* the never reported neighbours of key 39 still read as pressed
C37_WitnessReleased ==
  /\ Scanned /\ obs.value = 7 /\ obs.reported[39] = "released" /\ obs.ret = 135
\* key 0 released and key 4 pressed: column 0 reads 0x08
C37_WitnessPressed ==
  /\ Scanned /\ obs.value = 0 /\ obs.reported[0] = "released"
  /\ obs.reported[4] = "pressed" /\ ReadsPressed(4) /\ ~ReadsPressed(0) /\ obs.ret = 8

\* ------------------------------------------------------------------------
\* The CPU with the Via on its bus (SpecSys)
\* ------------------------------------------------------------------------
\* C32: on every tick the VIA decrements its timers exactly as many times
\* as the CPU has consumed cycles since the VIA's previous tick (the sum of
\* the values returned by the intervening step_instruction calls),
\* including on the first tick after Cpu::reset is called on a CPU whose
\* bus and devices are kept.
C32_TickCounts ==
  obs.ticked => obs.decremented = obs.due

\* the same while Cpu::reset has not been called, for the ticks that do
\* not follow a step spent waiting
C32_TickCountsRunning ==
  obs.ticked /\ resets = 0 /\ ~obs.after_idle => obs.decremented = obs.due

\* the tick of the second step spent waiting: 1 cycle returned, 0 elapsed
C32_WitnessIdle ==
  /\ obs.ticked /\ obs.after_idle /\ obs.idle /\ resets = 0
  /\ obs.due = 1 /\ obs.decremented = 0
\* the first tick after a reset made at cycle 12 or later: the Via was last
\* ticked at cycle 8, the tick at cycle 0 asks for 2^64 - 8 iterations
C32_WitnessReset ==
  /\ obs.ticked /\ resets = 1 /\ obs.decremented = -8 /\ obs.due = 4
  /\ panicked /\ ViaOf(memory).spinning
\* a reset after the first step: the 2 cycles of that step are never counted
C32_WitnessEarlyReset ==
  /\ obs.ticked /\ resets = 1 /\ obs.decremented = 0 /\ obs.due = 2 /\ ~panicked
\* the tick after STA T1CH: 4 cycles returned, 4 elapsed
C32_WitnessRunning ==
  /\ obs.ticked /\ resets = 0 /\ obs.due = 4 /\ obs.decremented = 4 /\ cycle >= 18
  /\ ViaOf(memory).t1_watch.armed

\* WAI has been executed with Timer 1 armed (T1CH written, the counter not
\* yet expired) and IER bit 6 set
WaitingForTimer ==
  /\ wai /\ last.call = "step" /\ last.fetched = 203
  /\ ViaOf(memory).t1_enabled /\ Bit(ViaOf(memory).ifr, 6) = 0 /\ Bit(ViaOf(memory).ier, 6) = 1
\* the timer has expired, the tick of the latest step returned irq, and the
\* CPU, no longer waiting, went on to execute an instruction in it
WokenByTimer ==
  /\ ~wai /\ last.call = "step" /\ last.irq /\ Fetched(last)
  /\ ViaOf(memory).t1_watch.fired >= 1

\* C31: if WAI is executed while VIA Timer 1 is armed and IER bit 6 is set,
\* then under repeated step_instruction calls (no reset in between) the
\* timer eventually expires, the VIA tick returns irq, and the CPU leaves
\* the waiting state and executes further instructions.
C31_TimerWakes ==
  WaitingForTimer ~> (WokenByTimer \/ resets > 0)

\* the same for a timer that expires within the cycles of WAI itself
C31_TimerWakesAtOnce ==
  (WaitingForTimer /\ ViaOf(memory).t1_counter <= 3) ~> (WokenByTimer \/ resets > 0)

\* T1 = 8: four cycles left when WAI is executed, one after the next tick,
\* and steps spent waiting that return 1 while the counter stays at 1
C31_WitnessAsleep ==
  /\ wai /\ obs.idle /\ obs.after_idle /\ resets = 0
  /\ ViaOf(memory).t1_enabled /\ ViaOf(memory).t1_counter = 1 /\ last.ret = 1
\* T1 = 6: two cycles left when WAI is executed, woken by the next tick
C31_WitnessWoken ==
  /\ WokenByTimer /\ resets = 0 /\ ViaOf(memory).t1_watch.n = 6 /\ last.fetched = 219

\* an interrupt flag of the device is set and enabled in IER
Pending(v) == BitAnd(BitAnd(v.ifr, v.ier), 127) # 0
\* the call accessed a register of the Via
Touched(o) ==
  \E i \in DOMAIN Accesses(o) :
    Accesses(o)[i][2] \in VIA_BASE..(VIA_BASE + VIA_SIZE - 1)

\* C34: irq is level-sensitive.  A tick returns irq exactly when, the
\* timers counted, an IFR flag is set that is enabled in IER; a tick clears
\* no flag, and a step that accesses no Via register leaves IFR and IER as
\* the tick left them: so once a timer has set an enabled flag every
\* subsequent tick returns irq until the flag is cleared or disabled.  On a
\* step whose tick returns irq the CPU performs the IRQ sequence iff
\* P.irq_disable is 0: a handler that returns without clearing the flag is
\* entered again on the first step at which P.irq_disable is 0.
C34_Step ==
  run /\ obs'.calls # obs.calls /\ ~panicked' =>
    LET at_tick == Via_update(ViaOf(memory), cycle).via
    IN /\ last'.irq = Pending(at_tick)
       /\ \A b \in 0..6 : Bit(ViaOf(memory).ifr, b) = 1 => Bit(at_tick.ifr, b) = 1
       /\ ~Touched(last') =>
            /\ ViaOf(memory').ifr = at_tick.ifr
            /\ ViaOf(memory').ier = at_tick.ier
       /\ (last'.seq = "irq") = (last'.irq /\ ~flag(p, IRQB_DISABLE))
C34_LevelSensitive == [][C34_Step]_vars

\* the handler is a bare RTI: Timer 1 fired once, the IRQ sequence has been
\* performed three times
C34_WitnessAgain ==
  /\ last.call = "step" /\ last.seq = "irq" /\ obs.sequences = 3
  /\ ViaOf(memory).t1_watch.fired = 1 /\ ~ViaOf(memory).t1_enabled
\* the timer fired while P.irq_disable was set: the sequence is performed
\* on the step after CLI
C34_WitnessAfterCli ==
  /\ last.call = "step" /\ last.seq = "irq" /\ obs.sequences = 1
  /\ ViaOf(memory).t1_watch.n = 3 /\ last.pre.pc = ROM_BASE + 16
\* the handler reads T1CL: one sequence, the program runs on to STP
C34_WitnessCleared ==
  /\ ~run /\ obs.sequences = 1 /\ ViaOf(memory).t1_watch.fired = 1
  /\ ViaOf(memory).ifr = 0 /\ Bit(ViaOf(memory).ier, 6) = 1
\* the handler disables Timer 1 in IER: the flag stays, one sequence
C34_WitnessDisabled ==
  /\ ~run /\ obs.sequences = 1 /\ ViaOf(memory).ifr = 64 /\ ViaOf(memory).ier = 128
\* the timer fires between the two NOPs, P.irq_disable clear: the sequence
\* is performed on the step of that tick
C34_WitnessAtOnce ==
  /\ last.call = "step" /\ last.seq = "irq" /\ obs.sequences = 1
  /\ ViaOf(memory).t1_watch.n = 8 /\ last.pre.pc = ROM_BASE + 17
====
